---- MODULE Spec2Model ----
(***************************************************************************)
(* File ledger and upload confirmation of MeteorS3                         *)
(* (packages/meteor-s3/server.js).  Every public operation is an async     *)
(* function: it is split at its awaits, so that calls of different         *)
(* requests interleave at the ledger reads and writes, the store calls     *)
(* and the hook calls.                                                     *)
(***************************************************************************)
EXTENDS Integers, Sequences, FiniteSets, TLC

VARIABLES
    cfg,            \* this.config and the hooks taken from it (constructor)
    files,          \* this.files: the ledger, _id -> document
    objects,        \* the bucket in the store: key -> ETag of the object
    nextId,         \* next fresh Random.id() (document _id, default key)
    proc,           \* per request: where its call stands and its locals
    result,         \* the response the last step sent, if it ended a call
    calls,          \* number of calls started so far
    now,            \* the clock read by new Date(); it advances before a status write
    gen,            \* a call of generateValidBucketName: its inputs and its result
    buckets,        \* this.buckets: the registry, a set of rows
    s3,             \* the names of the buckets that exist in the store
    eb,             \* per server process: where its ensureBucket stands
    ebResult,       \* how the ensureBucket that ended in the last step ended
    ebStats,        \* what has happened so far: CreateBucket successes, overlap, crashes
    iam,            \* the execution role in IAM: trust policy, attached and inline policy
    fn,             \* the upload handler function in Lambda
    notif,          \* the notification configuration of the bucket
    rc              \* the run of IAMManager.init and LambdaManager.init

bucketVars == <<buckets, s3, eb, ebResult, ebStats>>

reconVars == <<iam, fn, notif, rc>>

\* the state outside the file ledger
provVars == <<gen, bucketVars, reconVars>>

ledgerVars == <<cfg, files, objects, nextId, proc, result, calls, now>>

vars == <<ledgerVars, provVars>>

----------------------------------------------------------------------------
(* Bounds *)

MaxFiles == 2
MaxCalls == 3

Procs == {"p1", "p2"}
Users == {"u1"}
Filenames == {"a.png"}
Etags == {"e1"}
CustomKeys == {<<"users", "k1">>}
FileIds == 1..MaxFiles

----------------------------------------------------------------------------
(* Values *)

None == <<>>
Some(x) == <<x>>

bucketName == "meteor-s3-inst"

NoEtag == "none"
NoDate == -1

\* the keys of publicFileFields
publicFileFields == {"_id", "filename", "size", "mimeType", "status"}

\* findOneAsync(fileId, {fields: publicFileFields})
Project(doc) == [f \in publicFileFields |-> doc[f]]

\* the key without the prefix
MutUploadKey(suffix) == suffix

\* "uploads/" + this.onGetKey(...): keys are sequences of path pieces
UploadKey(suffix) == <<"uploads/">> \o suffix

\* Random.id(): the n-th draw; draws do not repeat
RandomIds == <<"r1", "r2", "r3", "r4">>

\* the default onGetKey: `${Random.id()}-${fileInfos.filename}`
DefaultGetKey(n, filename) == <<RandomIds[n], filename>>

\* the document getUploadUrl inserts
NewFileDoc(id, name, key, userId, t) ==
    [_id |-> id, filename |-> name, size |-> 10, mimeType |-> "image/png",
     key |-> key, bucket |-> bucketName, status |-> "pending",
     etag |-> NoEtag, ownerId |-> userId, createdAt |-> t,
     updatedAt |-> NoDate, meta |-> "meta"]

\* a modifier that also stamps createdAt
MutSetUploaded(doc, etag, t) ==
    [doc EXCEPT !.status = "uploaded", !.etag = etag, !.updatedAt = t, !.createdAt = t]

\* the $set modifier of handleFileUploadEvent applied to a document
SetUploaded(doc, etag, t) ==
    [doc EXCEPT !.status = "uploaded", !.etag = etag, !.updatedAt = t]

\* a presigned URL names the command, the bucket and the key it was signed for
SignedUrl(cmd, bucket, key) == [cmd |-> cmd, bucket |-> bucket, key |-> key]

\* a status test that only excludes failed uploads
MutIsReady(doc) == doc.status # "error"

\* the status test of getDownloadUrl
IsReady(doc) == doc.status = "uploaded"

\* a ledger without the unique index on key
MutKeyTaken(key) == FALSE

\* the unique index on key rejects an insert whose key is in the ledger
KeyTaken(key) == \E id \in DOMAIN files : files[id].key = key

FindByKey(key) == {id \in DOMAIN files : files[id].key = key}

Lookup(id) == IF id \in DOMAIN files THEN Some(files[id]) ELSE None

\* config.skipPermissionChecks, and whether config.onCheckPermissions is set
Configs == [skipPermissionChecks : BOOLEAN, customCheck : BOOLEAN]

\* a default that allows, as the constructor of the first revision had it
MutDefaultCheckPermissions == "true"

\* the default onCheckPermissions of the constructor: deny
DefaultCheckPermissions == "false"

\* what the configured onCheckPermissions may answer (it is application code)
PredicateAnswers ==
    IF cfg.customCheck THEN {"true", "false", "throw"} ELSE {DefaultCheckPermissions}

\* the gate without the skipPermissionChecks branch
MuthandlePermissionsCheck(skip, answer) == <<answer, 1, answer>>

\* handlePermissionsCheck, where answer is what onCheckPermissions returns
\* when it is called: <<what the gate returns, the number of calls of
\* onCheckPermissions, what onCheckPermissions returned to the gate>>
handlePermissionsCheck(skip, answer) ==
    IF skip THEN <<"true", 0, "none">> ELSE <<answer, 1, answer>>

----------------------------------------------------------------------------
(* Calls *)

Idle ==
    [pc |-> "idle", op |-> "none", via |-> "method", fileId |-> 0,
     userId |-> "nouser", name |-> "", key |-> <<>>, doc |-> None,
     head |-> NoEtag, answer |-> "none", perm |-> "none", permCalls |-> 0,
     fx |-> <<>>,
     hookArg |-> None, matched |-> 0]

NoResult == [call |-> Idle, outcome |-> "none", value |-> None, http |-> 0]

Count(s, x) == Cardinality({i \in DOMAIN s : s[i] = x})

\* a handler that answers 200 whatever the confirmation did
MutHttpOf(c, outcome) == IF c.via # "webhook" THEN 0 ELSE 200

\* the status the POST handler answers with: .then 200, .catch 500
HttpOf(c, outcome) ==
    IF c.via # "webhook" THEN 0
    ELSE IF outcome = "ok" THEN 200 ELSE 500

\* the .catch of the POST handler writes the error to console.error; a call
\* that did not come through the endpoint has no such catch
Caught(c, outcome) ==
    IF c.via = "webhook" /\ outcome # "ok"
    THEN [c EXCEPT !.fx = @ \o <<"console.error">>]
    ELSE c

\* the call of p ends: c is its final record
Finish(p, c, outcome, value) ==
    /\ proc' = [proc EXCEPT ![p] = Idle]
    /\ result' = [call |-> Caught(c, outcome), outcome |-> outcome, value |-> value,
                  http |-> HttpOf(c, outcome)]

\* the call of p goes on with record c
Continue(p, c) ==
    /\ proc' = [proc EXCEPT ![p] = c]
    /\ result' = NoResult

\* a request arrives at an idle worker
Begin(p) ==
    /\ proc[p].pc = "idle"
    /\ calls < MaxCalls
    /\ calls' = calls + 1

NewCall(op, id, userId) ==
    [Idle EXCEPT !.op = op, !.fileId = id, !.userId = userId]

\* no call of generateValidBucketName
NoGen == [instanceName |-> <<>>, fixed |-> FALSE, suffix |-> <<>>, name |-> None]

Servers == {"s1", "s2"}

\* config.name of the instances
Instances == {<<"i", "n", "s", "t">>}

\* no ensureBucket in flight
EbIdle ==
    [pc |-> "idle", name |-> <<>>, region |-> "", fixed |-> FALSE,
     existingBucket |-> None, newBucket |-> None, bucketName |-> <<>>,
     reach |-> FALSE, fx |-> <<>>]

NoEbResult == [call |-> EbIdle, outcome |-> "none"]

NoEbStats ==
    [created |-> [i \in Instances |-> 0], draws |-> 0, runs |-> 0,
     overlapped |-> FALSE, crashed |-> FALSE]

\* an empty registry and store, no ensureBucket started
BucketIdle ==
    /\ buckets = {} /\ s3 = {}
    /\ eb = [p \in Servers |-> EbIdle]
    /\ ebResult = NoEbResult
    /\ ebStats = NoEbStats

\* no role
NoRole == [role |-> FALSE, trust |-> "none", attached |-> FALSE, inline |-> "none"]

\* no function
NoFunction ==
    [exists |-> FALSE, code |-> "none", config |-> "none", perm |-> FALSE,
     state |-> "none", lus |-> "none"]

\* a bucket without notifications
NoNotification ==
    [LambdaFunctionConfigurations |-> {}, QueueConfigurations |-> {},
     TopicConfigurations |-> {}]

\* no run of the managers yet
RcIdle ==
    [pc |-> "idle", writes |-> <<>>, lambdaRoleArn |-> FALSE,
     waitFor |-> "none", after |-> "none", polls |-> 0, attempt |-> 0, i |-> 0,
     existingFunction |-> None, current |-> None,
     runs |-> 0, drifts |-> 0, quiet |-> FALSE, clean |-> FALSE,
     notReady |-> FALSE, error |-> "none", accepted |-> {},
     bucketName |-> FALSE, observed |-> FALSE]

\* nothing provisioned and no run started
ReconIdle ==
    /\ iam = NoRole /\ fn = NoFunction /\ notif = NoNotification
    /\ rc = RcIdle

\* the ledger before any call, with the default configuration
LedgerIdle ==
    /\ cfg = [skipPermissionChecks |-> FALSE, customCheck |-> FALSE]
    /\ files = <<>> /\ objects = <<>> /\ nextId = 1
    /\ proc = [p \in Procs |-> Idle]
    /\ result = NoResult /\ calls = 0 /\ now = 0

----------------------------------------------------------------------------
Init ==
    /\ cfg \in Configs
    /\ files = <<>>
    /\ objects = <<>>
    /\ nextId = 1
    /\ proc = [p \in Procs |-> Idle]
    /\ result = NoResult
    /\ calls = 0
    /\ now = 0
    /\ gen = NoGen
    /\ BucketIdle
    /\ ReconIdle

\* new MeteorS3(config) in a restarted server process: the ledger and the
\* bucket are durable, the configuration and the hooks are those of the new
\* instance
Construct(c) ==
    /\ \A p \in Procs : proc[p].pc = "idle"
    /\ c # cfg
    /\ cfg' = c
    /\ result' = NoResult
    /\ UNCHANGED provVars
    /\ UNCHANGED <<files, objects, nextId, proc, calls, now>>

\* a client PUTs an object under the key of a record
PutObject(k, e) ==
    /\ KeyTaken(k)
    /\ ~(k \in DOMAIN objects /\ objects[k] = e)
    /\ objects' = [x \in DOMAIN objects \cup {k} |-> IF x = k THEN e ELSE objects[x]]
    /\ result' = NoResult
    /\ UNCHANGED provVars
    /\ UNCHANGED <<cfg, files, nextId, proc, calls, now>>

----------------------------------------------------------------------------
(* getUploadUrl *)

\* up to the permission check and the throw on denial
GetUploadUrl(p, name, userId, answer) ==
    /\ Begin(p)
    /\ nextId + Cardinality({q \in Procs : proc[q].pc = "gu_insert"}) <= MaxFiles
    /\ LET chk == handlePermissionsCheck(cfg.skipPermissionChecks, answer)
           c == [NewCall("getUploadUrl", 0, userId) EXCEPT
                    !.name = name, !.answer = chk[3],
                    !.perm = chk[1], !.permCalls = chk[2]]
       IN  CASE chk[1] = "false" -> Finish(p, c, "s3-permission-denied", None)
             [] chk[1] = "throw" -> Finish(p, c, "check-threw", None)
             [] OTHER -> Continue(p, [c EXCEPT !.pc = "gu_insert"])
    /\ UNCHANGED provVars
    /\ UNCHANGED <<cfg, files, objects, nextId, now>>

\* onGetKey, the document and insertAsync
GuInsert(p, suffix) ==
    /\ proc[p].pc = "gu_insert"
    /\ UNCHANGED provVars
    /\ UNCHANGED <<cfg, objects, calls, now>>
    /\ LET c0 == proc[p]
           key == UploadKey(suffix)
           c == [c0 EXCEPT !.key = key, !.fx = c0.fx \o <<"onGetKey">>]
       IN  IF KeyTaken(key)
           THEN /\ Finish(p, c, "duplicate-key", None)
                /\ UNCHANGED <<files, nextId>>
           ELSE /\ files' = (nextId :> NewFileDoc(nextId, c.name, key, c.userId, now)) @@ files
                /\ nextId' = nextId + 1
                /\ Continue(p, [c EXCEPT !.pc = "gu_hook", !.fileId = nextId,
                                         !.fx = c.fx \o <<"insert">>])

\* what this.onGetKey may return: the default draws a fresh Random.id(), a
\* configured function may also repeat a key
GetKeyResults(n, filename) == CustomKeys \cup {DefaultGetKey(n, filename)}

\* a getUploadUrl that rolls the insert back when onBeforeUpload throws
MutGuHook(p, throws) ==
    /\ proc[p].pc = "gu_hook"
    /\ UNCHANGED provVars
    /\ UNCHANGED <<cfg, objects, nextId, calls, now>>
    /\ LET c0 == proc[p]
           c == [c0 EXCEPT !.doc = Lookup(c0.fileId), !.hookArg = Lookup(c0.fileId),
                           !.fx = c0.fx \o <<"onBeforeUpload">>]
       IN  IF throws
           THEN /\ files' = [i \in DOMAIN files \ {c0.fileId} |-> files[i]]
                /\ Finish(p, c, "hook-threw", None)
           ELSE /\ UNCHANGED files
                /\ Continue(p, [c EXCEPT !.pc = "gu_sign"])

\* findOneAsync(fileId) and onBeforeUpload(fileDocDb)
GuHook(p, throws) ==
    /\ proc[p].pc = "gu_hook"
    /\ UNCHANGED provVars
    /\ UNCHANGED <<cfg, files, objects, nextId, calls, now>>
    /\ LET c0 == proc[p]
           c == [c0 EXCEPT !.doc = Lookup(c0.fileId), !.hookArg = Lookup(c0.fileId),
                           !.fx = c0.fx \o <<"onBeforeUpload">>]
       IN  IF throws THEN Finish(p, c, "hook-threw", None)
           ELSE Continue(p, [c EXCEPT !.pc = "gu_sign"])

\* getSignedUrl(PutObjectCommand(params)) and the return
GuSign(p) ==
    /\ proc[p].pc = "gu_sign"
    /\ UNCHANGED provVars
    /\ UNCHANGED <<cfg, files, objects, nextId, calls, now>>
    /\ LET c0 == proc[p]
           c == [c0 EXCEPT !.fx = c0.fx \o <<"PutUrl">>]
       IN  Finish(p, c, "ok",
                  Some([url |-> SignedUrl("PutObject", bucketName, c.key),
                        fileId |-> c.fileId]))

----------------------------------------------------------------------------
(* The gate of head, getDownloadUrl and removeFile: findOneAsync(fileId),  *)
(* not found, handlePermissionsCheck, denied.                              *)

Gated(p, op, action, id, answer, next) ==
    /\ Begin(p)
    /\ LET chk == handlePermissionsCheck(cfg.skipPermissionChecks, answer)
           c0 == [NewCall(op, id, "nouser") EXCEPT !.doc = Lookup(id)]
           c == [c0 EXCEPT !.answer = chk[3], !.perm = chk[1], !.permCalls = chk[2]]
       IN  CASE c0.doc = None -> Finish(p, c0, "s3-file-not-found", None)
             [] c0.doc # None /\ chk[1] = "false" -> Finish(p, c, "s3-permission-denied", None)
             [] c0.doc # None /\ chk[1] = "throw" -> Finish(p, c, "check-threw", None)
             [] OTHER -> Continue(p, [c EXCEPT !.pc = next])
    /\ UNCHANGED provVars
    /\ UNCHANGED <<cfg, files, objects, nextId, now>>

(* head *)
head(p, id, answer) ==
    Gated(p, "head", "download", id, answer, "hd_read")

\* the second findOneAsync, with fields: publicFileFields
HdRead(p) ==
    /\ proc[p].pc = "hd_read"
    /\ UNCHANGED provVars
    /\ UNCHANGED <<cfg, files, objects, nextId, calls, now>>
    /\ LET c == proc[p]
           d == Lookup(c.fileId)
       IN  Finish(p, c, "ok", IF d = None THEN None ELSE Some(Project(d[1])))

(* getDownloadUrl *)
GetDownloadUrl(p, id, answer) ==
    Gated(p, "getDownloadUrl", "download", id, answer, "gd_check")

\* the status check on the document read before the gate, and getSignedUrl
GdCheck(p) ==
    /\ proc[p].pc = "gd_check"
    /\ UNCHANGED provVars
    /\ UNCHANGED <<cfg, files, objects, nextId, calls, now>>
    /\ LET c == proc[p]
           d == c.doc[1]
       IN  IF ~IsReady(d) THEN Finish(p, c, "s3-file-not-ready", None)
           ELSE Finish(p, [c EXCEPT !.fx = c.fx \o <<"GetUrl">>], "ok",
                       Some(SignedUrl("GetObject", bucketName, d.key)))

(* removeFile *)

\* removeFile with the DeleteObjectCommand sent before the permission check
MutRemoveFile(p, id, answer) ==
    /\ Begin(p)
    /\ LET chk == handlePermissionsCheck(cfg.skipPermissionChecks, answer)
           c0 == [NewCall("removeFile", id, "nouser") EXCEPT !.doc = Lookup(id)]
           c == [c0 EXCEPT !.answer = chk[3], !.perm = chk[1], !.permCalls = chk[2],
                           !.fx = <<"DeleteObject">>]
       IN  IF c0.doc = None
           THEN Finish(p, c0, "s3-file-not-found", None) /\ UNCHANGED objects
           ELSE /\ objects' = [x \in DOMAIN objects \ {c0.doc[1].key} |-> objects[x]]
                /\ CASE chk[1] = "false" -> Finish(p, c, "s3-permission-denied", None)
                     [] chk[1] = "throw" -> Finish(p, c, "check-threw", None)
                     [] OTHER -> Continue(p, [c EXCEPT !.pc = "rf_remove"])
    /\ UNCHANGED provVars
    /\ UNCHANGED <<cfg, files, nextId, now>>

RemoveFile(p, id, answer) ==
    Gated(p, "removeFile", "delete", id, answer, "rf_delete")

\* a removeFile that removes the ledger record although the store call failed
MutRfDelete(p, fails) ==
    /\ proc[p].pc = "rf_delete"
    /\ UNCHANGED provVars
    /\ UNCHANGED <<cfg, nextId, calls, now>>
    /\ LET c == proc[p]
           k == c.doc[1].key
       IN  IF fails
           THEN /\ files' = [i \in DOMAIN files \ {c.fileId} |-> files[i]]
                /\ Finish(p, c, "s3-delete-failed", None)
                /\ UNCHANGED objects
           ELSE /\ objects' = [x \in DOMAIN objects \ {k} |-> objects[x]]
                /\ UNCHANGED files
                /\ Continue(p, [c EXCEPT !.pc = "rf_remove",
                                         !.fx = c.fx \o <<"DeleteObject">>])

\* DeleteObjectCommand: the store deletes the object or the call fails
RfDelete(p, fails) ==
    /\ proc[p].pc = "rf_delete"
    /\ UNCHANGED provVars
    /\ UNCHANGED <<cfg, files, nextId, calls, now>>
    /\ LET c == proc[p]
           k == c.doc[1].key
       IN  IF fails
           THEN /\ Finish(p, c, "s3-delete-failed", None)
                /\ UNCHANGED objects
           ELSE /\ objects' = [x \in DOMAIN objects \ {k} |-> objects[x]]
                /\ Continue(p, [c EXCEPT !.pc = "rf_remove",
                                         !.fx = c.fx \o <<"DeleteObject">>])

\* removeAsync(fileId)
RfRemove(p) ==
    /\ proc[p].pc = "rf_remove"
    /\ UNCHANGED provVars
    /\ UNCHANGED <<cfg, objects, nextId, calls, now>>
    /\ LET c == proc[p]
       IN  /\ files' = [i \in DOMAIN files \ {c.fileId} |-> files[i]]
           /\ Finish(p, [c EXCEPT !.fx = c.fx \o <<"remove">>], "ok", None)

----------------------------------------------------------------------------
(* handleFileUploadEvent *)

handleFileUploadEvent(p, id) ==
    /\ Begin(p)
    /\ Continue(p, [NewCall("handleFileUploadEvent", id, "nouser") EXCEPT !.pc = "hf_find"])
    /\ UNCHANGED provVars
    /\ UNCHANGED <<cfg, files, objects, nextId, now>>

\* findOneAsync(fileId)
HfFind(p) ==
    /\ proc[p].pc = "hf_find"
    /\ UNCHANGED provVars
    /\ UNCHANGED <<cfg, files, objects, nextId, calls, now>>
    /\ LET c == [proc[p] EXCEPT !.doc = Lookup(proc[p].fileId)]
       IN  IF c.doc = None THEN Finish(p, c, "s3-file-not-found", None)
           ELSE Continue(p, [c EXCEPT !.pc = "hf_probe"])

\* a probe whose catch branch marks the record as failed
MutHfProbe(p, storeError) ==
    /\ proc[p].pc = "hf_probe"
    /\ UNCHANGED provVars
    /\ UNCHANGED <<cfg, objects, nextId, calls, now>>
    /\ LET c == proc[p]
           k == c.doc[1].key
       IN  IF storeError \/ k \notin DOMAIN objects
           THEN /\ files' = [i \in DOMAIN files |->
                                IF i = c.fileId THEN [files[i] EXCEPT !.status = "error"]
                                ELSE files[i]]
                /\ Finish(p, [c EXCEPT !.fx = c.fx \o <<"HeadObject">>], "s3-file-not-found",
                          Some(IF k \notin DOMAIN objects THEN "NotFound" ELSE "StoreError"))
           ELSE /\ UNCHANGED files
                /\ Continue(p, [c EXCEPT !.pc = "hf_update", !.head = objects[k],
                                         !.fx = c.fx \o <<"HeadObject">>])

\* HeadObjectCommand: the ETag of the object, or an error (the object is
\* absent, or the store call fails otherwise); every error is caught alike
HfProbe(p, storeError) ==
    /\ proc[p].pc = "hf_probe"
    /\ UNCHANGED provVars
    /\ UNCHANGED <<cfg, files, objects, nextId, calls, now>>
    /\ LET c == proc[p]
           k == c.doc[1].key
       IN  IF storeError \/ k \notin DOMAIN objects
           THEN Finish(p, [c EXCEPT !.fx = c.fx \o <<"HeadObject">>], "s3-file-not-found",
                       Some(IF k \notin DOMAIN objects THEN "NotFound" ELSE "StoreError"))
           ELSE Continue(p, [c EXCEPT !.pc = "hf_update", !.head = objects[k],
                                      !.fx = c.fx \o <<"HeadObject">>])

\* updateAsync(fileId, {$set: {status, etag, updatedAt}}); matched is the
\* number of documents the update resolves to, which the code does not read
HfUpdate(p) ==
    /\ proc[p].pc = "hf_update"
    /\ UNCHANGED provVars
    /\ UNCHANGED <<cfg, objects, nextId, calls>>
    /\ LET c == proc[p]
           id == c.fileId
       IN  /\ IF id \in DOMAIN files
              THEN files' = [files EXCEPT ![id] = SetUploaded(@, c.head, now + 1)]
              ELSE UNCHANGED files
           /\ now' = now + 1
           /\ Continue(p, [c EXCEPT !.pc = "hf_hook", !.fx = c.fx \o <<"update">>,
                                    !.matched = IF id \in DOMAIN files THEN 1 ELSE 0])

\* onAfterUpload(fileDoc) and return fileDoc
HfHook(p, throws) ==
    /\ proc[p].pc = "hf_hook"
    /\ UNCHANGED provVars
    /\ UNCHANGED <<cfg, files, objects, nextId, calls, now>>
    /\ LET c0 == proc[p]
           c == [c0 EXCEPT !.hookArg = c0.doc, !.fx = c0.fx \o <<"onAfterUpload">>]
       IN  IF throws THEN Finish(p, c, "hook-threw", None)
           ELSE Finish(p, c, "ok", c.doc)

----------------------------------------------------------------------------
(* The confirm endpoint of ensureEndpoints *)

NoKey == <<>>

\* the POST handler up to the call of handleFileUploadEvent(file._id)
Webhook(p, key) ==
    /\ Begin(p)
    /\ LET c == [NewCall("handleFileUploadEvent", 0, "nouser") EXCEPT
                    !.via = "webhook", !.key = key]
       IN  CASE key = NoKey ->
                  /\ proc' = [proc EXCEPT ![p] = Idle]
                  /\ result' = [call |-> c, outcome |-> "missing-key",
                                value |-> None, http |-> 400]
             [] key # NoKey /\ FindByKey(key) = {} ->
                  /\ proc' = [proc EXCEPT ![p] = Idle]
                  /\ result' = [call |-> c, outcome |-> "no-record",
                                value |-> None, http |-> 404]
             [] OTHER ->
                  \E id \in FindByKey(key) :
                      Continue(p, [c EXCEPT !.pc = "hf_find", !.fileId = id])
    /\ UNCHANGED provVars
    /\ UNCHANGED <<cfg, files, objects, nextId, now>>

----------------------------------------------------------------------------
AllKeys ==
    {UploadKey(s) : s \in CustomKeys}
      \cup {UploadKey(DefaultGetKey(n, f)) : n \in FileIds, f \in Filenames}

Next ==
    \/ \E c \in Configs : Construct(c)
    \/ \E k \in AllKeys, e \in Etags : PutObject(k, e)
    \/ \E p \in Procs, n \in Filenames, u \in Users, a \in PredicateAnswers :
          GetUploadUrl(p, n, u, a)
    \/ \E p \in Procs : \E s \in GetKeyResults(nextId, proc[p].name) : GuInsert(p, s)
    \/ \E p \in Procs, t \in BOOLEAN : GuHook(p, t)
    \/ \E p \in Procs : GuSign(p)
    \/ \E p \in Procs, i \in FileIds, a \in PredicateAnswers :
          head(p, i, a)
    \/ \E p \in Procs : HdRead(p)
    \/ \E p \in Procs, i \in FileIds, a \in PredicateAnswers :
          GetDownloadUrl(p, i, a)
    \/ \E p \in Procs : GdCheck(p)
    \/ \E p \in Procs, i \in FileIds, a \in PredicateAnswers :
          RemoveFile(p, i, a)
    \/ \E p \in Procs, f \in BOOLEAN : RfDelete(p, f)
    \/ \E p \in Procs : RfRemove(p)
    \/ \E p \in Procs, i \in FileIds : handleFileUploadEvent(p, i)
    \/ \E p \in Procs : HfFind(p)
    \/ \E p \in Procs, e \in BOOLEAN : HfProbe(p, e)
    \/ \E p \in Procs : HfUpdate(p)
    \/ \E p \in Procs, t \in BOOLEAN : HfHook(p, t)
    \/ \E p \in Procs, k \in AllKeys \cup {NoKey} : Webhook(p, k)

Spec == Init /\ [][Next]_vars

----------------------------------------------------------------------------
(* Properties.  result is the response sent by the step just taken, so a   *)
(* state predicate over result speaks of the moment a call ends, and an    *)
(* action formula over result' of the step that ends it.                   *)

Ended(op) == result.outcome # "none" /\ result.call.op = op
EndedNext(op) == result'.outcome # "none" /\ result'.call.op = op
Did(c, x) == Count(c.fx, x) > 0

\* C1: handleFileUploadEvent is idempotent: a call that finds the record
\* already uploaded re-runs no side effect (no ledger write, no call of
\* onAfterUpload, so that in a sequence of calls the hook fires at most
\* once) and returns the existing record.
C1_ConfirmIdempotent ==
    (Ended("handleFileUploadEvent") /\ result.call.doc # None
        /\ result.call.doc[1].status = "uploaded")
      => /\ ~Did(result.call, "update")
         /\ ~Did(result.call, "onAfterUpload")
         /\ result.outcome = "ok" => result.value = result.call.doc

\* C2: of two handleFileUploadEvent calls for the same fileId that are in
\* flight together only the first one to write the status writes at all: the
\* other one performs no ledger update.
C2_FirstWriterWins ==
    \A p, q \in Procs :
        (p # q /\ proc[p].op = "handleFileUploadEvent"
              /\ proc[q].op = "handleFileUploadEvent"
              /\ proc[p].fileId = proc[q].fileId
              /\ Did(proc[p], "update"))
          => ~Did(proc[q], "update")

C3_InsertStep(p) ==
    LET id == proc'[p].fileId
    IN  /\ id \notin DOMAIN files
        /\ DOMAIN files' = DOMAIN files \cup {id}
        /\ \A j \in DOMAIN files : files'[j] = files[j]
        /\ files'[id]._id = id
        /\ files'[id].status = "pending"
        /\ files'[id].ownerId = proc[p].userId
        /\ files'[id].bucket = bucketName
        /\ files'[id].key = proc'[p].key
        /\ Len(files'[id].key) > 1 /\ files'[id].key[1] = "uploads/"
        /\ Count(proc'[p].fx, "insert") = 1

ProbeFailed(r) ==
    /\ r.outcome = "s3-file-not-found"
    /\ r.call.op = "handleFileUploadEvent"
    /\ r.call.doc # None

\* C4: a handleFileUploadEvent whose object is not in the store fails with
\* s3-file-not-found and that call writes nothing: the ledger is as before
\* (status, etag, updatedAt) and onAfterUpload is not invoked; a probe that
\* finds the object goes on to the status write, which sets uploaded.
C4_ProbeMissLeavesRecord ==
    [][\A p \in Procs :
        /\ (proc[p].pc = "hf_probe" /\ proc'[p] # proc[p]
              /\ proc[p].doc[1].key \notin DOMAIN objects)
             => ProbeFailed(result')
        /\ ProbeFailed(result') =>
             /\ files' = files
             /\ ~Did(result'.call, "update") /\ ~Did(result'.call, "onAfterUpload")
        /\ (proc[p].pc = "hf_probe" /\ proc'[p] # proc[p]
              /\ proc[p].doc[1].key \in DOMAIN objects)
             => (proc'[p].pc = "hf_update" \/ result'.value = Some("StoreError"))
        /\ (proc[p].pc = "hf_update" /\ proc'[p] # proc[p]
              /\ proc[p].fileId \in DOMAIN files)
             => files'[proc[p].fileId].status = "uploaded"]_vars

C4_Witness ==
    /\ ProbeFailed(result) /\ result.value = Some("NotFound")
    /\ result.call.fileId \in DOMAIN files
    /\ files[result.call.fileId].status = "pending"
    /\ files[result.call.fileId].etag = NoEtag
    /\ files[result.call.fileId].updatedAt = NoDate

\* C5: a status changes only from pending to uploaded or error; an uploaded
\* or error record keeps its status under every step, and a record leaves
\* the ledger only by the removeAsync of removeFile; its _id is not reused.
C5_TerminalStatusStays ==
    [][/\ \A i \in DOMAIN files \cap DOMAIN files' :
            files'[i].status # files[i].status
              => (files[i].status = "pending" /\ files'[i].status \in {"uploaded", "error"})
       /\ \A i \in DOMAIN files \ DOMAIN files' : EndedNext("removeFile")
       /\ \A i \in DOMAIN files' \ DOMAIN files : i >= nextId]_vars

C5_Witness ==
    \E p \in Procs :
        /\ proc[p].pc = "hf_hook"
        /\ proc[p].doc[1].status = "uploaded"
        /\ proc[p].fileId \in DOMAIN files
        /\ files[proc[p].fileId].status = "uploaded"
        /\ files[proc[p].fileId].updatedAt > proc[p].doc[1].updatedAt

\* C6: a step that answers s3-permission-denied changes neither the ledger
\* nor the store nor a hook counter, and the denied call has minted no URL
\* and called no onGetKey, onBeforeUpload or onAfterUpload.
C6_DenialHasNoEffect ==
    [][result'.outcome = "s3-permission-denied" =>
          /\ result'.call.op \in {"getUploadUrl", "head", "getDownloadUrl", "removeFile"}
          /\ UNCHANGED <<files, objects, nextId, now>>
          /\ result'.call.fx = <<>>
          /\ result'.value = None]_vars

C6_Witness ==
    /\ Ended("removeFile") /\ result.outcome = "s3-permission-denied"
    /\ result.call.doc # None
    /\ result.call.doc[1].key \in DOMAIN objects
    /\ result.call.fileId \in DOMAIN files

GatedOps == {"getUploadUrl", "head", "getDownloadUrl", "removeFile"}

\* the call c came to handlePermissionsCheck
AtGate(c) == c.op = "getUploadUrl" \/ (c.op \in GatedOps /\ c.doc # None)

GateCalls == {result.call} \cup {proc[p] : p \in Procs}

\* C8: with skipPermissionChecks the gate grants without calling
\* onCheckPermissions; without it the gate returns what onCheckPermissions
\* answered, having called it once, and the call is denied exactly when that
\* answer is false.
C8_SkipBypassesPredicate ==
    \A c \in GateCalls : AtGate(c) =>
        /\ cfg.skipPermissionChecks =>
             (c.perm = "true" /\ c.permCalls = 0 /\ c.answer = "none")
        /\ ~cfg.skipPermissionChecks => (c.perm = c.answer /\ c.permCalls = 1)
        /\ (c = result.call /\ result.outcome # "none")
             => (result.outcome = "s3-permission-denied" <=> c.perm = "false")

C8_Witness ==
    /\ cfg.skipPermissionChecks /\ ~cfg.customCheck
    /\ Ended("removeFile") /\ result.outcome = "ok"
    /\ result.call.perm = "true" /\ result.call.permCalls = 0

\* C9: a getDownloadUrl of an existing record that passes the gate fails
\* with s3-file-not-ready and mints no URL when the record it read is not
\* uploaded, and otherwise returns a GET URL for the bucket and the
\* record's key.
C9_DownloadOnlyWhenUploaded ==
    (Ended("getDownloadUrl") /\ result.call.doc # None /\ result.call.perm = "true")
      => IF result.call.doc[1].status = "uploaded"
         THEN /\ result.outcome = "ok"
              /\ result.value[1].cmd = "GetObject"
              /\ result.value[1].bucket = bucketName
              /\ result.value[1].key = result.call.doc[1].key
         ELSE /\ result.outcome = "s3-file-not-ready"
              /\ result.value = None
              /\ ~Did(result.call, "GetUrl")

C9_Witness ==
    /\ Ended("getDownloadUrl") /\ result.outcome = "s3-file-not-ready"
    /\ result.call.doc[1].status = "pending"
    /\ result.call.doc[1].key \in DOMAIN objects

\* C10: a handleFileUploadEvent that succeeds returns the updated record
\* (status uploaded, the ETag of the probe) and has passed the record as it
\* was before the update to onAfterUpload.
C10_ReturnsUpdatedRecord ==
    (Ended("handleFileUploadEvent") /\ result.outcome = "ok")
      => /\ result.value[1].status = "uploaded"
         /\ result.value[1].etag = result.call.head
         /\ result.call.hookArg = result.call.doc

\* C11: a handleFileUploadEvent whose probe fails is answered with
\* s3-file-not-found only when the object is absent from the store; a probe
\* that fails although the object is there (access, network) is surfaced as
\* another error.
C11_OnlyAbsentIsNotFound ==
    (Ended("handleFileUploadEvent") /\ ProbeFailed(result))
      => result.call.doc[1].key \notin DOMAIN objects

\* C12: an onAfterUpload that throws is logged, and the status write before
\* it stays: the record is uploaded with the ETag and the date of the write.
C12_HookErrorLoggedNotReverted ==
    (Ended("handleFileUploadEvent") /\ result.outcome = "hook-threw")
      => /\ Did(result.call, "console.error")
         /\ result.call.fileId \in DOMAIN files
              => /\ files[result.call.fileId].status = "uploaded"
                 /\ files[result.call.fileId].etag # NoEtag
                 /\ files[result.call.fileId].updatedAt # NoDate

\* C13: a getUploadUrl whose onBeforeUpload throws ends there: it returns
\* nothing and signs no URL, and the step leaves the ledger as it is, so the
\* record the call inserted is neither removed nor changed.
C13_BeforeHookThrowKeepsRecord ==
    [][(result'.outcome = "hook-threw" /\ result'.call.op = "getUploadUrl") =>
          /\ files' = files
          /\ result'.value = None
          /\ result'.call.fx = <<"onGetKey", "insert", "onBeforeUpload">>
          /\ result'.call.doc # None =>
               /\ result'.call.fileId \in DOMAIN files'
               /\ files'[result'.call.fileId] = result'.call.doc[1]]_vars

C13_Witness ==
    /\ Ended("getUploadUrl") /\ result.outcome = "hook-threw"
    /\ result.call.fileId \in DOMAIN files
    /\ files[result.call.fileId].status = "pending"
    /\ files[result.call.fileId].key = result.call.key

\* C14: removeFile sends DeleteObject before it removes the ledger record;
\* when DeleteObject fails the call ends with s3-delete-failed and that step
\* changes neither the ledger nor the store, and the call has removed nothing.
C14_DeleteFailureKeepsRecord ==
    [][/\ result'.outcome = "s3-delete-failed" =>
            /\ result'.call.op = "removeFile"
            /\ files' = files /\ objects' = objects
            /\ ~Did(result'.call, "remove")
       /\ \A p \in Procs :
            /\ (proc[p].pc = "rf_delete" /\ proc'[p].pc = "rf_remove") =>
                 /\ files' = files
                 /\ proc[p].doc[1].key \notin DOMAIN objects'
            /\ (proc[p].pc = "rf_remove" /\ proc'[p] # proc[p]) =>
                 /\ result'.call.fx = <<"DeleteObject", "remove">>
                 /\ proc[p].fileId \notin DOMAIN files'
                 /\ objects' = objects]_vars

C14_Witness ==
    /\ Ended("removeFile") /\ result.outcome = "s3-delete-failed"
    /\ result.call.fileId \in DOMAIN files
    /\ files[result.call.fileId] = result.call.doc[1]
    /\ result.call.doc[1].key \in DOMAIN objects

C16_KeysUnique ==
    /\ \A i, j \in DOMAIN files : files[i].key = files[j].key => i = j
    /\ (Ended("getUploadUrl") /\ result.outcome = "duplicate-key")
         => /\ result.value = None
            /\ ~Did(result.call, "insert") /\ ~Did(result.call, "PutUrl")
            /\ Cardinality(FindByKey(result.call.key)) = 1

C16_Witness ==
    /\ Ended("getUploadUrl") /\ result.outcome = "duplicate-key"
    /\ result.call.key = <<"uploads/", "users", "k1">>
    /\ Cardinality(DOMAIN files) = 1

\* C35: a record has an etag only when its status is uploaded, and once a
\* record is uploaded no later step writes its etag or its updatedAt again.
C35_EtagOnlyOnTransition ==
    /\ [](\A id \in DOMAIN files : files[id].etag # NoEtag => files[id].status = "uploaded")
    /\ [][\A id \in DOMAIN files \cap DOMAIN files' :
             files[id].status = "uploaded" =>
                 /\ files'[id].etag = files[id].etag
                 /\ files'[id].updatedAt = files[id].updatedAt]_vars

\* the fields of a record that are set at its creation
Fixed(doc) ==
    [_id |-> doc._id, key |-> doc.key, bucket |-> doc.bucket, filename |-> doc.filename,
     size |-> doc.size, mimeType |-> doc.mimeType, ownerId |-> doc.ownerId,
     meta |-> doc.meta, createdAt |-> doc.createdAt]

\* C36: no step changes the id, key, bucket, filename, size, mimeType,
\* ownerId, meta or createdAt of a record that stays in the ledger, and the
\* update of handleFileUploadEvent adds no record, removes none and leaves
\* every record other than the one with the given fileId as it was.
C36_ConfirmWritesOneRecord ==
    [][/\ \A id \in DOMAIN files \cap DOMAIN files' :
            /\ Fixed(files'[id]) = Fixed(files[id])
            /\ files'[id]._id = id
       /\ \A p \in Procs :
            (proc[p].pc = "hf_update" /\ proc'[p].pc = "hf_hook") =>
                /\ DOMAIN files' = DOMAIN files
                /\ \A id \in DOMAIN files \ {proc[p].fileId} : files'[id] = files[id]]_vars

\* the update has just set a pending record to uploaded next to another record
C36_Witness ==
    \E p \in Procs :
        /\ proc[p].pc = "hf_hook"
        /\ proc[p].fileId \in DOMAIN files
        /\ proc[p].doc[1].status = "pending"
        /\ files[proc[p].fileId].status = "uploaded"
        /\ files[proc[p].fileId].updatedAt = now
        /\ Cardinality(DOMAIN files) = 2

\* C40: when handleFileUploadEvent and removeFile run for the same fileId,
\* handleFileUploadEvent calls onAfterUpload and returns the document only if
\* its update matched a record of the ledger; and no step brings back a
\* record that was removed.
C40_ConfirmVersusRemove ==
    [][/\ EndedNext("handleFileUploadEvent") =>
            /\ Did(result'.call, "onAfterUpload") => result'.call.matched = 1
            /\ result'.outcome = "ok" => result'.call.matched = 1
       /\ \A id \in FileIds :
            (id < nextId /\ id \notin DOMAIN files) => id \notin DOMAIN files']_vars

----------------------------------------------------------------------------


(* generateValidBucketName.  A string is the sequence of its characters.   *)

MaxTail == 2
MaxBucketNameLen == 63

LowerLetters ==
    {"a", "b", "c", "d", "e", "f", "g", "h", "i", "j", "k", "l", "m",
     "n", "o", "p", "q", "r", "s", "t", "u", "v", "w", "x", "y", "z"}
Digits == {"0", "1", "2", "3", "4", "5", "6", "7", "8", "9"}

\* the characters of the instance names tried
Alphabet == {"a", "B", "7", "-", "!"}

\* String.prototype.toLowerCase on a character of Alphabet
ToLowerCase(ch) == IF ch = "B" THEN "b" ELSE ch

\* the class [a-z0-9-]
IsNameChar(ch) == ch \in LowerLetters \cup Digits \cup {"-"}

\* .toLowerCase().replace(/[^a-z0-9-]/g, "-")
ReplaceInvalid(str) ==
    [i \in 1..Len(str) |->
        IF IsNameChar(ToLowerCase(str[i])) THEN ToLowerCase(str[i]) ELSE "-"]

\* .replace(/^-+/, ""): the string from its first character that is no hyphen
StripLeading(str) ==
    LET other == {i \in 1..Len(str) : str[i] # "-"}
    IN  IF other = {} THEN <<>>
        ELSE SubSeq(str, CHOOSE i \in other : \A j \in other : i <= j, Len(str))

\* .replace(/-+$/, ""): the string up to its last character that is no hyphen
StripTrailing(str) ==
    LET other == {i \in 1..Len(str) : str[i] # "-"}
    IN  IF other = {} THEN <<>>
        ELSE SubSeq(str, 1, CHOOSE i \in other : \A j \in other : j <= i)

\* .replace(/--+/g, "-"): of every run of hyphens the first one is kept
Collapse(str) ==
    LET keep == {i \in 1..Len(str) : ~(str[i] = "-" /\ i > 1 /\ str[i - 1] = "-")}
    IN  [j \in 1..Cardinality(keep) |->
            str[CHOOSE i \in keep : Cardinality({k \in keep : k <= i}) = j]]

slugified(instanceName) ==
    Collapse(StripTrailing(StripLeading(ReplaceInvalid(instanceName))))

NamePrefix == <<"m", "e", "t", "e", "o", "r", "-", "s", "3", "-">>

\* results of Random.id(6).toLowerCase()
RandomSuffixes ==
    {<<"x", "7", "q", "2", "m", "k">>, <<"2", "2", "a", "a", "9", "9">>}

\* fixed is Meteor.isDevelopment && !Meteor.isTest
generateValidBucketName(instanceName, fixed, randomSuffix) ==
    LET baseName == IF fixed
                    THEN NamePrefix \o slugified(instanceName)
                    ELSE NamePrefix \o slugified(instanceName) \o <<"-">> \o randomSuffix
    IN  SubSeq(baseName, 1, IF Len(baseName) < MaxBucketNameLen
                            THEN Len(baseName) ELSE MaxBucketNameLen)

Repeat(ch, n) == [i \in 1..n |-> ch]

Tails == UNION {[1..n -> Alphabet] : n \in 0..MaxTail}

\* instance names: short ones of every shape, and long ones that reach the
\* cut at MaxBucketNameLen
InstanceNames ==
    {Repeat("a", n) \o t : n \in {0, 46, 52, 53, 80}, t \in Tails}

NameInit ==
    /\ LedgerIdle
    /\ BucketIdle
    /\ ReconIdle
    /\ \E i \in InstanceNames, f \in BOOLEAN, r \in RandomSuffixes :
          gen = [instanceName |-> i, fixed |-> f, suffix |-> r, name |-> None]

GenerateName ==
    /\ gen.name = None
    /\ gen' = [gen EXCEPT
                 !.name = Some(generateValidBucketName(gen.instanceName, gen.fixed, gen.suffix))]
    /\ UNCHANGED <<ledgerVars, bucketVars, reconVars>>

NameNext == GenerateName

SpecName == NameInit /\ [][NameNext]_vars

\* C17: generateValidBucketName returns for every instance name, with the
\* fixed and with the random suffix, a name of 1 to 63 characters of
\* [a-z0-9-] that neither starts nor ends with a hyphen and has no two
\* hyphens in a row.
C17_NameAlwaysValid ==
    gen.name # None =>
        LET n == gen.name[1]
        IN  /\ Len(n) >= 1 /\ Len(n) <= MaxBucketNameLen
            /\ \A i \in 1..Len(n) : IsNameChar(n[i])
            /\ n[1] # "-" /\ n[Len(n)] # "-"
            /\ \A i \in 1..(Len(n) - 1) : ~(n[i] = "-" /\ n[i + 1] = "-")

----------------------------------------------------------------------------
(* ensureBucket.  The registry and the store are shared by the server      *)
(* processes; each process runs ensureBucket once at its startup.          *)

MaxEnsures == 3

Regions == {"eu-central-1", "eu-west-1"}

\* the last character of the n-th Random.id(6)
IdChars == <<"0", "1", "2", "3", "4", "5", "6", "7", "8", "9">>

\* the n-th draw of Random.id(6).toLowerCase(); draws do not repeat
RandomId6(n) == <<"x", "7", "q", "2", "m", IdChars[n]>>

\* a find that never sees a row
MutFindBucket(instanceName) == None

\* this.buckets.findOneAsync({instanceName})
FindBucket(instanceName) ==
    IF \E r \in buckets : r.instanceName = instanceName
    THEN Some(CHOOSE r \in buckets : r.instanceName = instanceName)
    ELSE None

EbFinish(p, c, outcome) ==
    /\ eb' = [eb EXCEPT ![p] = EbIdle]
    /\ ebResult' = [call |-> c, outcome |-> outcome]

EbContinue(p, c) ==
    /\ eb' = [eb EXCEPT ![p] = c]
    /\ ebResult' = NoEbResult

\* init calls ensureBucket: the registry lookup and, when there is no row,
\* the new row with its generated name
ensureBucket(p, name, region, fixed) ==
    /\ eb[p].pc = "idle"
    /\ ebStats.runs < MaxEnsures
    /\ UNCHANGED <<ledgerVars, gen, reconVars, buckets, s3>>
    /\ LET existingBucket == FindBucket(name)
           c == [EbIdle EXCEPT !.name = name, !.region = region, !.fixed = fixed,
                               !.existingBucket = existingBucket]
           overlap == \E q \in Servers : q # p /\ eb[q].pc # "idle"
       IN  IF existingBucket # None
           THEN /\ EbContinue(p, [c EXCEPT !.pc = "eb_head",
                                           !.bucketName = existingBucket[1].bucketName])
                /\ ebStats' = [ebStats EXCEPT !.runs = @ + 1,
                                              !.overlapped = @ \/ overlap]
           ELSE /\ EbContinue(p, [c EXCEPT !.pc = "eb_create", !.newBucket =
                     Some([instanceName |-> name,
                           bucketName |-> generateValidBucketName(
                                              name, fixed, RandomId6(ebStats.draws + 1)),
                           region |-> region])])
                /\ ebStats' = [ebStats EXCEPT !.runs = @ + 1, !.draws = @ + 1,
                                              !.overlapped = @ \/ overlap]

\* an ensureBucket that takes a region mismatch for an access failure
MutEbHead(p, denied) ==
    /\ eb[p].pc = "eb_head"
    /\ UNCHANGED <<ledgerVars, gen, reconVars, buckets, s3, ebStats>>
    /\ LET c0 == eb[p]
           ok == c0.bucketName \in s3 /\ ~denied
           c == [c0 EXCEPT !.reach = ok, !.fx = @ \o <<"HeadBucket">>]
       IN  IF ~ok \/ c.existingBucket[1].region # c.region
           THEN EbFinish(p, c, "s3-bucket-access")
           ELSE EbFinish(p, c, "ok")

\* HeadBucketCommand on the registered bucket, then the region comparison
EbHead(p, denied) ==
    /\ eb[p].pc = "eb_head"
    /\ UNCHANGED <<ledgerVars, gen, reconVars, buckets, s3, ebStats>>
    /\ LET c0 == eb[p]
           ok == c0.bucketName \in s3 /\ ~denied
           c == [c0 EXCEPT !.reach = ok, !.fx = @ \o <<"HeadBucket">>]
       IN  IF ~ok THEN EbFinish(p, c, "s3-bucket-access")
           ELSE IF c.existingBucket[1].region # c.region
           THEN EbFinish(p, [c EXCEPT !.fx = @ \o <<"console.warn">>], "ok")
           ELSE EbFinish(p, c, "ok")

\* CreateBucketCommand: the store refuses a name that exists, or fails otherwise
EbCreate(p, fails) ==
    /\ eb[p].pc = "eb_create"
    /\ UNCHANGED <<ledgerVars, gen, reconVars, buckets>>
    /\ LET c == eb[p]
           b == c.newBucket[1].bucketName
       IN  IF fails \/ b \in s3
           THEN /\ EbFinish(p, c, "s3-bucket-creation")
                /\ UNCHANGED <<s3, ebStats>>
           ELSE /\ s3' = s3 \cup {b}
                /\ ebStats' = [ebStats EXCEPT !.created[c.name] = @ + 1]
                /\ EbContinue(p, [c EXCEPT !.pc = "eb_insert",
                                           !.fx = @ \o <<"CreateBucket">>])

\* this.buckets.insertAsync(newBucket), which the unique index on
\* instanceName can reject, and this.bucketName
EbInsert(p) ==
    /\ eb[p].pc = "eb_insert"
    /\ UNCHANGED <<ledgerVars, gen, reconVars, s3, ebStats>>
    /\ LET c == eb[p]
       IN  IF \E r \in buckets : r.instanceName = c.name
           THEN /\ EbFinish(p, c, "duplicate-key")
                /\ UNCHANGED buckets
           ELSE /\ buckets' = buckets \cup {c.newBucket[1]}
                /\ EbFinish(p, [c EXCEPT !.bucketName = c.newBucket[1].bucketName,
                                         !.fx = @ \o <<"insert">>], "ok")

\* the server process dies in the middle of ensureBucket
EbCrash(p) ==
    /\ eb[p].pc # "idle"
    /\ eb' = [eb EXCEPT ![p] = EbIdle]
    /\ ebResult' = NoEbResult
    /\ ebStats' = [ebStats EXCEPT !.crashed = TRUE]
    /\ UNCHANGED <<ledgerVars, gen, reconVars, buckets, s3>>

\* a bucket is deleted in the store by someone else
LoseBucket(b) ==
    /\ b \in s3
    /\ s3' = s3 \ {b}
    /\ ebResult' = NoEbResult
    /\ UNCHANGED <<ledgerVars, gen, reconVars, buckets, eb, ebStats>>

BucketInit == LedgerIdle /\ gen = NoGen /\ BucketIdle /\ ReconIdle

BucketNext ==
    \/ \E p \in Servers, n \in Instances, r \in Regions, f \in BOOLEAN :
          ensureBucket(p, n, r, f)
    \/ \E p \in Servers, d \in BOOLEAN : EbHead(p, d)
    \/ \E p \in Servers, f \in BOOLEAN : EbCreate(p, f)
    \/ \E p \in Servers : EbInsert(p)
    \/ \E p \in Servers : EbCrash(p)
    \/ \E b \in s3 : LoseBucket(b)

SpecBucket == BucketInit /\ [][BucketNext]_vars

EbCalls == {ebResult.call} \cup {eb[p] : p \in Servers}
EbDid(c, x) == Count(c.fx, x) > 0
Rows(n) == {r \in buckets : r.instanceName = n}

\* C18: an ensureBucket that finds a row for its instance sends no
\* CreateBucket and inserts no row; the registry never holds two rows for an
\* instance; and as long as the runs have come one after the other and each
\* has run to its end, an instance has as many created buckets as rows, and
\* exactly one of each once a run for it has succeeded.
C18_LookupOrCreate ==
    /\ \A c \in EbCalls : c.existingBucket # None =>
           ~EbDid(c, "CreateBucket") /\ ~EbDid(c, "insert")
    /\ \A n \in Instances : Cardinality(Rows(n)) <= 1
    /\ (~ebStats.overlapped /\ ~ebStats.crashed /\ \A p \in Servers : eb[p].pc = "idle")
         => /\ \A n \in Instances : ebStats.created[n] = Cardinality(Rows(n))
            /\ ebResult.outcome = "ok" =>
                 /\ Cardinality(Rows(ebResult.call.name)) = 1
                 /\ ebStats.created[ebResult.call.name] = 1

C18_Witness ==
    /\ ~ebStats.overlapped /\ ~ebStats.crashed
    /\ ebStats.runs = MaxEnsures
    /\ ebResult.outcome = "ok" /\ ebResult.call.existingBucket # None
    /\ ebStats.created[ebResult.call.name] = 1
    /\ ebStats.created = [n \in Instances |-> IF n = ebResult.call.name THEN 1 ELSE 0]

\* C19: an ensureBucket that finds a row fails, with s3-bucket-access,
\* exactly when HeadBucket on the registered bucket fails; a row whose region
\* differs from the configured one makes it warn and succeed; either way
\* it sends no CreateBucket, and no step of it changes the registry or the
\* store.
C19_AccessErrorIffUnreachable ==
    /\ [](ebResult.outcome # "none" /\ ebResult.call.existingBucket # None =>
            LET c == ebResult.call
            IN  /\ ebResult.outcome = "s3-bucket-access" <=> ~c.reach
                /\ ebResult.outcome = "ok" <=> c.reach
                /\ EbDid(c, "console.warn") <=>
                     (c.reach /\ c.existingBucket[1].region # c.region)
                /\ c.bucketName = c.existingBucket[1].bucketName
                /\ ~EbDid(c, "CreateBucket") /\ ~EbDid(c, "insert"))
    /\ [][\A p \in Servers :
            (eb[p].existingBucket # None /\ eb'[p] # eb[p])
               => (buckets' = buckets /\ s3' = s3
                     /\ ebStats'.created = ebStats.created)]_vars

C19_Witness ==
    /\ ebResult.outcome = "ok"
    /\ ebResult.call.existingBucket # None
    /\ ebResult.call.existingBucket[1].region # ebResult.call.region
    /\ EbDid(ebResult.call, "console.warn")
    /\ ebResult.call.bucketName \in s3

\* C33: when processes run ensureBucket for an instance together while the
\* registry has no row for it, at most one bucket is created for the
\* instance, the registry ends with exactly one row for it, and no process
\* ends with a bucket of its own that the row does not name.
C33_ConcurrentEnsureOneBucket ==
    ~ebStats.crashed =>
        /\ \A n \in Instances :
              /\ ebStats.created[n] <= 1
              /\ Cardinality(Rows(n)) <= 1
              /\ (ebStats.created[n] >= 1 /\ \A p \in Servers : eb[p].pc = "idle")
                    => Cardinality(Rows(n)) = 1
        /\ ebResult.outcome # "duplicate-key"
        /\ ebResult.outcome = "ok" =>
              \E r \in Rows(ebResult.call.name) : r.bucketName = ebResult.call.bucketName

\* C34: a run of ensureBucket that comes after a run that died between
\* CreateBucket and the insert of the row is not stopped by the bucket that
\* run has left: with the fixed and with the random suffix, it does not end
\* with s3-bucket-creation because its bucket name is taken, and when it
\* ends it has left a row that names its bucket.
C34_CrashBeforeInsertTolerated ==
    (~ebStats.overlapped /\ ebResult.outcome # "none"
        /\ ebResult.call.existingBucket = None) =>
        /\ ebResult.outcome = "s3-bucket-creation" =>
              ebResult.call.newBucket[1].bucketName \notin s3
        /\ ebResult.outcome = "ok" =>
              \E r \in Rows(ebResult.call.name) : r.bucketName = ebResult.call.bucketName

----------------------------------------------------------------------------
(* IAMManager.init and LambdaManager.init: the execution role, the upload  *)
(* handler function and the notification of the bucket.  Each call of the  *)
(* control plane is a step; between the steps the function settles and     *)
(* others change the resources.                                            *)

MaxReconciles == 2
MaxDrift == 1
MaxPolls == 2
maxRetries == 6
max == 8

\* the entry ensureS3UploadTrigger wants in LambdaFunctionConfigurations
desired == [Id |-> "uploads-fn", LambdaFunctionArn |-> "arn:fn"]

\* an entry with the same Id for another function, and an entry of others
StaleEntry == [Id |-> "uploads-fn", LambdaFunctionArn |-> "arn:old"]
ForeignEntry == [Id |-> "thumbs", LambdaFunctionArn |-> "arn:thumbs"]

\* a mutating call is sent
Sent(c, call) == [c EXCEPT !.writes = @ \o <<call>>]

\* the run throws e
RcThrow(c, e) == rc' = [c EXCEPT !.pc = "failed", !.quiet = FALSE, !.error = e]

\* the run throws the error of the call it sent
RcFail(c) == RcThrow(c, "Error")

\* waitForLambdaReady is entered; it goes on at pc after when it returns
Wait(c, kind, after) ==
    [c EXCEPT !.pc = "wait", !.waitFor = kind, !.after = after, !.polls = 0]

\* init up to IAMManager.init: ensureBucket sets bucketName or throws
init(bucket) ==
    /\ rc.pc \in {"idle", "done", "failed"}
    /\ rc.runs < MaxReconciles
    /\ LET c == [RcIdle EXCEPT !.runs = rc.runs + 1, !.drifts = rc.drifts,
                               !.quiet = rc.quiet, !.clean = rc.quiet]
       IN  IF bucket
           THEN rc' = [c EXCEPT !.pc = "el_get", !.bucketName = TRUE]
           ELSE RcThrow(c, "s3-bucket")
    /\ UNCHANGED <<ledgerVars, gen, bucketVars, iam, fn, notif>>

\* IAMManager.init: ensureLambdaExecRole up to GetRole
ensureLambdaExecRole ==
    /\ rc.pc = "el_get"
    /\ rc' = [rc EXCEPT !.pc = IF iam.role THEN "el_trust" ELSE "el_create"]
    /\ UNCHANGED <<ledgerVars, gen, bucketVars, iam, fn, notif>>

\* UpdateAssumeRolePolicy on the role GetRole returned
ElUpdateTrust ==
    /\ rc.pc = "el_trust"
    /\ UNCHANGED <<ledgerVars, gen, bucketVars, fn, notif>>
    /\ IF iam.role
       THEN /\ iam' = [iam EXCEPT !.trust = "desired"]
            /\ rc' = [Sent(rc, "UpdateAssumeRolePolicy") EXCEPT !.pc = "el_attach"]
       ELSE /\ UNCHANGED iam
            /\ rc' = [Sent(rc, "UpdateAssumeRolePolicy") EXCEPT !.pc = "el_create"]

\* CreateRole in the catch of NoSuchEntityException
ElCreateRole ==
    /\ rc.pc = "el_create"
    /\ UNCHANGED <<ledgerVars, gen, bucketVars, fn, notif>>
    /\ IF iam.role
       THEN /\ UNCHANGED iam
            /\ RcThrow(Sent(rc, "CreateRole"), "EntityAlreadyExists")
       ELSE /\ iam' = [iam EXCEPT !.role = TRUE, !.trust = "desired"]
            /\ rc' = [Sent(rc, "CreateRole") EXCEPT !.pc = "el_attach"]

\* AttachRolePolicy; its errors are logged and dropped
ElAttach(fails) ==
    /\ rc.pc = "el_attach"
    /\ UNCHANGED <<ledgerVars, gen, bucketVars, fn, notif>>
    /\ iam' = IF fails \/ ~iam.role THEN iam ELSE [iam EXCEPT !.attached = TRUE]
    /\ rc' = [Sent(rc, "AttachRolePolicy") EXCEPT !.pc = "el_getpol"]

\* GetRolePolicy and the comparison with s3Policy
ElGetPolicy ==
    /\ rc.pc = "el_getpol"
    /\ UNCHANGED <<ledgerVars, gen, bucketVars, iam, fn, notif>>
    /\ IF iam.inline = "desired"
       THEN rc' = [Wait(rc, "pre", "dl_get") EXCEPT !.lambdaRoleArn = TRUE]
       ELSE rc' = [rc EXCEPT !.pc = "el_putpol"]

\* PutRolePolicy, then LambdaManager.init: ensureLambdaFunctions
ElPutPolicy ==
    /\ rc.pc = "el_putpol"
    /\ UNCHANGED <<ledgerVars, gen, bucketVars, fn, notif>>
    /\ IF iam.role
       THEN /\ iam' = [iam EXCEPT !.inline = "desired"]
            /\ rc' = [Wait(Sent(rc, "PutRolePolicy"), "pre", "dl_get") EXCEPT
                         !.lambdaRoleArn = TRUE]
       ELSE /\ UNCHANGED iam
            /\ RcFail(Sent(rc, "PutRolePolicy"))

\* the function is ready as waitForLambdaReady sees it
LambdaReady == fn.lus \in {"none", "Successful"}

\* waitForLambdaReady returns: after a conflict of the last attempt of the
\* loop withLambdaUpdateRetry waits once more before its final attempt
WaitReturns ==
    IF rc.waitFor = "retry" /\ rc.attempt = maxRetries
    THEN Wait(rc, "last", rc.after)
    ELSE [rc EXCEPT !.pc = rc.after, !.waitFor = "none", !.after = "none", !.polls = 0]

\* waitForLambdaReady throws: ensureLambdaFunctions logs it and goes on,
\* the other callers let it pass
WaitThrows(e) ==
    IF rc.waitFor = "pre"
    THEN rc' = [rc EXCEPT !.pc = rc.after, !.waitFor = "none", !.after = "none",
                          !.polls = 0, !.notReady = TRUE]
    ELSE RcThrow(rc, e)

\* waitForLambdaReady without the time limit of its loop
MutWaitForLambdaReady(error) ==
    /\ rc.pc = "wait"
    /\ UNCHANGED <<ledgerVars, gen, bucketVars, iam, fn, notif>>
    /\ IF rc.polls = 0
       THEN IF error THEN WaitThrows("Error")
            ELSE IF ~fn.exists THEN rc' = WaitReturns
            ELSE rc' = [rc EXCEPT !.polls = 1]
       ELSE IF fn.exists /\ LambdaReady THEN rc' = WaitReturns
            ELSE rc' = [rc EXCEPT !.polls = IF @ >= MaxPolls THEN 1 ELSE @ + 1]

\* one GetFunction of waitForLambdaReady: the existence check first, whose
\* error other than ResourceNotFoundException is thrown, then the polls; a
\* poll that throws (no function, LastUpdateStatus Failed) is logged and
\* followed by the next poll, until the time is up
waitForLambdaReady(error) ==
    /\ rc.pc = "wait"
    /\ UNCHANGED <<ledgerVars, gen, bucketVars, iam, fn, notif>>
    /\ IF rc.polls = 0
       THEN IF error THEN WaitThrows("Error")
            ELSE IF ~fn.exists THEN rc' = WaitReturns
            ELSE rc' = [rc EXCEPT !.polls = 1]
       ELSE IF rc.polls > MaxPolls
            THEN WaitThrows("Timeout")
            ELSE IF fn.exists /\ LambdaReady THEN rc' = WaitReturns
                 ELSE rc' = [rc EXCEPT !.polls = @ + 1]

\* the manifest rendered for the instance, with the defaults of the code
manifest ==
    [Handler |-> "index.handler", Runtime |-> "nodejs20.x", MemorySize |-> 128,
     Timeout |-> 10, Role |-> "arn:role"]

\* the environment of the function, an object whose keys are in the order
\* they were written in
desiredEnv ==
    << <<"WEBHOOK_URL", "url">>, <<"BUCKET", "bucket">>, <<"INSTANCE", "name">> >>

\* the configuration CreateFunction and UpdateFunctionConfiguration send
Configuration ==
    [Handler |-> manifest.Handler, Runtime |-> manifest.Runtime,
     MemorySize |-> manifest.MemorySize, Timeout |-> manifest.Timeout,
     Role |-> manifest.Role, Variables |-> desiredEnv]

\* JSON.stringify of an object of strings: its keys and values in the
\* order of the object
JSONstringify(o) == [k \in 1..(2 * Len(o)) |-> o[(k + 1) \div 2][2 - (k % 2)]]

\* configDiff of deployLambdaFunction
configDiff(currentCfg) ==
    \/ currentCfg.MemorySize # manifest.MemorySize
    \/ currentCfg.Timeout # manifest.Timeout
    \/ currentCfg.Handler # manifest.Handler
    \/ currentCfg.Runtime # manifest.Runtime
    \/ JSONstringify(currentCfg.Variables) # JSONstringify(desiredEnv)
    \/ (manifest.Role # "" /\ currentCfg.Role # manifest.Role)

\* deployLambdaFunction: GetFunction, whose error other than
\* ResourceNotFoundException is thrown, and what is to be done
deployLambdaFunction(error) ==
    /\ rc.pc = "dl_get"
    /\ UNCHANGED <<ledgerVars, gen, bucketVars, iam, fn, notif>>
    /\ LET existingFunction ==
               IF fn.exists THEN Some([code |-> fn.code, config |-> fn.config]) ELSE None
           c == [rc EXCEPT !.existingFunction = existingFunction, !.attempt = 0]
       IN  IF error THEN RcThrow(rc, "GetFunction")
           ELSE rc' = [c EXCEPT !.pc =
                          IF existingFunction = None THEN "dl_create"
                          ELSE IF fn.code # "local" THEN "dl_code"
                          ELSE IF configDiff(fn.config) THEN "dl_config"
                          ELSE "tr_wait"]

\* CreateFunction that goes on to the updates
MutDlCreate ==
    /\ rc.pc = "dl_create"
    /\ UNCHANGED <<ledgerVars, gen, bucketVars, iam, notif>>
    /\ IF fn.exists
       THEN /\ UNCHANGED fn
            /\ RcThrow(Sent(rc, "CreateFunction"), "ResourceConflictException")
       ELSE /\ fn' = [exists |-> TRUE, code |-> "local", config |-> Configuration,
                      perm |-> FALSE, state |-> "Pending", lus |-> "Successful"]
            /\ rc' = Wait(Sent(rc, "CreateFunction"), "post", "dl_config")

\* CreateFunction and the wait after it
DlCreate ==
    /\ rc.pc = "dl_create"
    /\ UNCHANGED <<ledgerVars, gen, bucketVars, iam, notif>>
    /\ IF fn.exists
       THEN /\ UNCHANGED fn
            /\ RcThrow(Sent(rc, "CreateFunction"), "ResourceConflictException")
       ELSE /\ fn' = [exists |-> TRUE, code |-> "local", config |-> Configuration,
                      perm |-> FALSE, state |-> "Pending", lus |-> "Successful"]
            /\ rc' = Wait(Sent(rc, "CreateFunction"), "post", "tr_wait")

\* withLambdaUpdateRetry that throws the first ResourceConflictException
MutWithLambdaUpdateRetry(call, field, value, after) ==
    IF ~fn.exists
    THEN /\ UNCHANGED fn
         /\ RcFail(Sent(rc, call))
    ELSE IF fn.lus = "InProgress"
    THEN /\ UNCHANGED fn
         /\ RcThrow(Sent(rc, call), "ResourceConflictException")
    ELSE /\ fn' = [fn EXCEPT ![field] = value, !.lus = "InProgress"]
         /\ rc' = [Wait(Sent(rc, call), "post", after) EXCEPT
                      !.attempt = 0, !.accepted = @ \cup {call}]

\* fn() of withLambdaUpdateRetry: an update of a function that is being
\* updated is a ResourceConflictException, which is waited out and retried
withLambdaUpdateRetry(call, field, value, after) ==
    IF ~fn.exists
    THEN /\ UNCHANGED fn
         /\ RcFail(Sent(rc, call))
    ELSE IF fn.lus = "InProgress"
    THEN /\ UNCHANGED fn
         /\ IF rc.attempt < maxRetries
            THEN rc' = [Wait(Sent(rc, call), "retry", rc.pc) EXCEPT !.attempt = @ + 1]
            ELSE RcThrow(Sent(rc, call), "ResourceConflictException")
    ELSE /\ fn' = [fn EXCEPT ![field] = value, !.lus = "InProgress"]
         /\ rc' = [Wait(Sent(rc, call), "post", after) EXCEPT
                      !.attempt = 0, !.accepted = @ \cup {call}]

\* UpdateFunctionCode, when CodeSha256 differed
DlUpdateCode ==
    /\ rc.pc = "dl_code"
    /\ UNCHANGED <<ledgerVars, gen, bucketVars, iam, notif>>
    /\ withLambdaUpdateRetry("UpdateFunctionCode", "code", "local",
           IF configDiff(rc.existingFunction[1].config) THEN "dl_config" ELSE "tr_wait")

\* UpdateFunctionConfiguration, when the configuration read by GetFunction differed
DlUpdateConfig ==
    /\ rc.pc = "dl_config"
    /\ UNCHANGED <<ledgerVars, gen, bucketVars, iam, notif>>
    /\ withLambdaUpdateRetry("UpdateFunctionConfiguration", "config", Configuration,
                             "tr_wait")

\* ensureS3UploadTrigger that does not wait for the function
MutEnsureS3UploadTrigger ==
    /\ rc.pc = "tr_wait"
    /\ UNCHANGED <<ledgerVars, gen, bucketVars, iam, fn, notif>>
    /\ rc' = [rc EXCEPT !.pc = "tr_perm", !.polls = 0]

\* ensureS3UploadTrigger: one GetFunction of waitReady
ensureS3UploadTrigger ==
    /\ rc.pc = "tr_wait"
    /\ UNCHANGED <<ledgerVars, gen, bucketVars, iam, fn, notif>>
    /\ IF ~fn.exists \/ rc.polls >= MaxPolls THEN RcFail(rc)
       ELSE IF fn.state \in {"Active", "none"} /\ LambdaReady
       THEN rc' = [rc EXCEPT !.pc = "tr_perm", !.polls = 0, !.observed = TRUE]
       ELSE rc' = [rc EXCEPT !.polls = @ + 1]

\* GetFunction for the ARN and AddPermission, whose conflict means the
\* statement is there
TrAddPermission ==
    /\ rc.pc = "tr_perm"
    /\ UNCHANGED <<ledgerVars, gen, bucketVars, iam, notif>>
    /\ IF ~fn.exists
       THEN /\ UNCHANGED fn
            /\ RcFail(rc)
       ELSE /\ fn' = [fn EXCEPT !.perm = TRUE]
            /\ rc' = [Sent(rc, "AddPermission") EXCEPT !.pc = "tr_read", !.i = 0]

\* putWithRetry: GetBucketNotificationConfiguration of attempt i
putWithRetry ==
    /\ rc.pc = "tr_read"
    /\ UNCHANGED <<ledgerVars, gen, bucketVars, iam, fn, notif>>
    /\ IF rc.i >= max THEN RcThrow(rc, "Failed to set S3 notification after retries")
       ELSE rc' = [rc EXCEPT !.pc = "tr_put", !.current = Some(notif)]

\* a configuration of nothing but the desired entry
MutMerged(current) ==
    [LambdaFunctionConfigurations |-> {desired},
     QueueConfigurations |-> {}, TopicConfigurations |-> {}]

\* the configuration putWithRetry writes: the entries read, without the
\* desired one, and the desired one
merged(current) ==
    [LambdaFunctionConfigurations |->
        {c \in current.LambdaFunctionConfigurations :
            ~(c.LambdaFunctionArn = desired.LambdaFunctionArn /\ c.Id = desired.Id)}
          \cup {desired},
     QueueConfigurations |-> current.QueueConfigurations,
     TopicConfigurations |-> current.TopicConfigurations]

\* the store accepts a configuration whose Ids differ and whose function
\* allows the bucket to invoke it
Accepted(config) ==
    /\ fn.exists /\ fn.perm
    /\ \A a, b \in config.LambdaFunctionConfigurations : a.Id = b.Id => a = b

\* a putWithRetry that tries again after every error
MutTrPut(fails) ==
    /\ rc.pc = "tr_put"
    /\ UNCHANGED <<ledgerVars, gen, bucketVars, iam, fn>>
    /\ LET c == Sent(rc, "PutBucketNotificationConfiguration")
       IN  IF fails \/ ~Accepted(merged(rc.current[1]))
           THEN /\ UNCHANGED notif
                /\ rc' = [c EXCEPT !.pc = "tr_read", !.i = @ + 1]
           ELSE /\ notif' = merged(rc.current[1])
                /\ rc' = [c EXCEPT !.pc = "tr_verify"]

\* PutBucketNotificationConfiguration of attempt i
TrPut(fails) ==
    /\ rc.pc = "tr_put"
    /\ UNCHANGED <<ledgerVars, gen, bucketVars, iam, fn>>
    /\ LET c == Sent(rc, "PutBucketNotificationConfiguration")
       IN  IF fails
           THEN /\ UNCHANGED notif
                /\ RcFail(c)
           ELSE IF ~Accepted(merged(rc.current[1]))
           THEN /\ UNCHANGED notif
                /\ rc' = [c EXCEPT !.pc = "tr_read", !.i = @ + 1]
           ELSE /\ notif' = merged(rc.current[1])
                /\ rc' = [c EXCEPT !.pc = "tr_verify"]

\* a read back that is not looked at
MutTrVerify ==
    /\ rc.pc = "tr_verify"
    /\ UNCHANGED <<ledgerVars, gen, bucketVars, iam, fn, notif>>
    /\ rc' = [rc EXCEPT !.pc = "done", !.quiet = TRUE]

\* the read back of the configuration
TrVerify ==
    /\ rc.pc = "tr_verify"
    /\ UNCHANGED <<ledgerVars, gen, bucketVars, iam, fn, notif>>
    /\ IF desired \in notif.LambdaFunctionConfigurations
       THEN rc' = [rc EXCEPT !.pc = "done", !.quiet = TRUE]
       ELSE RcThrow(rc, "Verification failed")

\* Lambda finishes the creation or the update of the function
LambdaSettles(ok) ==
    /\ fn.exists
    /\ fn.state = "Pending" \/ fn.lus = "InProgress"
    /\ fn' = [fn EXCEPT !.state = "Active",
                        !.lus = IF fn.lus = "InProgress"
                                THEN (IF ok THEN "Successful" ELSE "Failed")
                                ELSE fn.lus]
    /\ UNCHANGED <<ledgerVars, gen, bucketVars, iam, notif, rc>>

\* another startup updates the function while this one is about to
OtherUpdate ==
    /\ rc.pc \in {"dl_code", "dl_config"}
    /\ fn.exists /\ fn.lus # "InProgress"
    /\ fn' = [fn EXCEPT !.lus = "InProgress"]
    /\ rc' = [rc EXCEPT !.quiet = FALSE, !.clean = FALSE]
    /\ UNCHANGED <<ledgerVars, gen, bucketVars, iam, notif>>

DriftKinds ==
    {"trust", "detach", "inline", "role", "code", "config", "env", "envOrder",
     "fnRole", "function",
     "permission", "entry", "stale", "foreign", "queue", "topic"}

\* what someone else does to the resources
Drifted(kind) ==
    CASE kind = "trust" ->
           iam.role /\ iam' = [iam EXCEPT !.trust = "other"] /\ UNCHANGED <<fn, notif>>
      [] kind = "detach" ->
           iam.attached /\ iam' = [iam EXCEPT !.attached = FALSE] /\ UNCHANGED <<fn, notif>>
      [] kind = "inline" ->
           iam.inline = "desired" /\ iam' = [iam EXCEPT !.inline = "other"]
             /\ UNCHANGED <<fn, notif>>
      [] kind = "role" ->
           iam.role /\ iam' = NoRole /\ UNCHANGED <<fn, notif>>
      [] kind = "code" ->
           fn.exists /\ fn' = [fn EXCEPT !.code = "old", !.lus = "InProgress"]
             /\ UNCHANGED <<iam, notif>>
      [] kind = "config" ->
           fn.exists /\ fn' = [fn EXCEPT !.config.MemorySize = 256, !.lus = "InProgress"]
             /\ UNCHANGED <<iam, notif>>
      [] kind = "env" ->
           fn.exists /\ fn' = [fn EXCEPT !.config.Variables[1] = <<"WEBHOOK_URL", "old">>,
                                         !.lus = "InProgress"]
             /\ UNCHANGED <<iam, notif>>
      [] kind = "envOrder" ->
           /\ fn.exists
           /\ fn' = [fn EXCEPT !.config.Variables = <<@[2], @[3], @[1]>>,
                               !.lus = "InProgress"]
           /\ UNCHANGED <<iam, notif>>
      [] kind = "fnRole" ->
           fn.exists /\ fn' = [fn EXCEPT !.config.Role = "arn:other", !.lus = "InProgress"]
             /\ UNCHANGED <<iam, notif>>
      [] kind = "function" ->
           fn.exists /\ fn' = NoFunction /\ UNCHANGED <<iam, notif>>
      [] kind = "permission" ->
           fn.perm /\ fn' = [fn EXCEPT !.perm = FALSE] /\ UNCHANGED <<iam, notif>>
      [] kind = "entry" ->
           /\ desired \in notif.LambdaFunctionConfigurations
           /\ notif' = [notif EXCEPT !.LambdaFunctionConfigurations = @ \ {desired}]
           /\ UNCHANGED <<iam, fn>>
      [] kind = "stale" ->
           /\ StaleEntry \notin notif.LambdaFunctionConfigurations
           /\ notif' = [notif EXCEPT !.LambdaFunctionConfigurations =
                                        (@ \ {desired}) \cup {StaleEntry}]
           /\ UNCHANGED <<iam, fn>>
      [] kind = "foreign" ->
           /\ ForeignEntry \notin notif.LambdaFunctionConfigurations
           /\ notif' = [notif EXCEPT !.LambdaFunctionConfigurations = @ \cup {ForeignEntry}]
           /\ UNCHANGED <<iam, fn>>
      [] kind = "queue" ->
           /\ notif.QueueConfigurations = {}
           /\ notif' = [notif EXCEPT !.QueueConfigurations = {"queue"}]
           /\ UNCHANGED <<iam, fn>>
      [] kind = "topic" ->
           /\ notif.TopicConfigurations = {}
           /\ notif' = [notif EXCEPT !.TopicConfigurations = {"topic"}]
           /\ UNCHANGED <<iam, fn>>

Drift(kind) ==
    /\ rc.drifts < MaxDrift
    /\ Drifted(kind)
    /\ rc' = [rc EXCEPT !.drifts = @ + 1, !.quiet = FALSE, !.clean = FALSE]
    /\ UNCHANGED <<ledgerVars, gen, bucketVars>>

ReconInit == LedgerIdle /\ gen = NoGen /\ BucketIdle /\ ReconIdle

ReconNext ==
    \/ \E bucket \in BOOLEAN : init(bucket)
    \/ ensureLambdaExecRole
    \/ ElUpdateTrust
    \/ ElCreateRole
    \/ \E f \in BOOLEAN : ElAttach(f)
    \/ ElGetPolicy
    \/ ElPutPolicy
    \/ \E error \in BOOLEAN : waitForLambdaReady(error)
    \/ \E error \in BOOLEAN : deployLambdaFunction(error)
    \/ DlCreate
    \/ DlUpdateCode
    \/ DlUpdateConfig
    \/ ensureS3UploadTrigger
    \/ TrAddPermission
    \/ putWithRetry
    \/ \E f \in BOOLEAN : TrPut(f)
    \/ TrVerify
    \/ \E ok \in BOOLEAN : LambdaSettles(ok)
    \/ OtherUpdate
    \/ \E k \in DriftKinds : Drift(k)

SpecReconciler == ReconInit /\ [][ReconNext]_vars

\* C20: a run of ensureLambdaExecRole, deployLambdaFunction and
\* ensureS3UploadTrigger that starts after a run that succeeded, with no
\* change of the resources by others since then, sends no mutating call.
C20_SecondRunWritesNothing ==
    (rc.pc = "done" /\ rc.clean) => rc.writes = <<>>

\* a GetFunction of the polling loop of waitForLambdaReady is being answered
Polling == rc.pc = "wait" /\ rc.polls \in 1..MaxPolls

\* the step is a GetFunction of waitForLambdaReady
PollStep == rc.pc = "wait" /\ rc'.runs = rc.runs /\ rc'.drifts = rc.drifts /\ rc' # rc

\* C21: waitForLambdaReady returns at once when the function does not
\* exist, returns on the first poll that reports LastUpdateStatus
\* Successful or no status, and a poll that reports LastUpdateStatus Failed
\* ends the wait at once: no further poll follows it.
C21_FailedEndsWait ==
    [][/\ (PollStep /\ rc.polls = 0 /\ ~fn.exists) => rc'.polls = 0
       /\ (PollStep /\ Polling /\ fn.exists /\ LambdaReady) => rc'.polls = 0
       /\ (PollStep /\ Polling /\ fn.exists /\ fn.lus = "Failed") => rc'.polls = 0]_vars

\* the steps of a run that has started: every call of the run is answered
RunStep ==
    \/ ensureLambdaExecRole
    \/ ElUpdateTrust
    \/ ElCreateRole
    \/ \E f \in BOOLEAN : ElAttach(f)
    \/ ElGetPolicy
    \/ ElPutPolicy
    \/ \E error \in BOOLEAN : waitForLambdaReady(error)
    \/ \E error \in BOOLEAN : deployLambdaFunction(error)
    \/ DlCreate
    \/ DlUpdateCode
    \/ DlUpdateConfig
    \/ ensureS3UploadTrigger
    \/ TrAddPermission
    \/ putWithRetry
    \/ \E f \in BOOLEAN : TrPut(f)
    \/ TrVerify

SpecReconcilerFair == SpecReconciler /\ WF_vars(RunStep)

\* the run is in waitForLambdaReady, in waitReady, in withLambdaUpdateRetry
\* or in putWithRetry
InLoop == rc.pc \in {"wait", "tr_wait", "dl_code", "dl_config", "tr_read", "tr_put"}

\* C22: waitForLambdaReady, waitReady, withLambdaUpdateRetry and
\* putWithRetry never pass their number of polls or attempts, and a run
\* that is in one of them leaves them, by returning or by throwing,
\* whatever the function's status does meanwhile.
C22_LoopsTerminate ==
    /\ [](rc.polls <= MaxPolls + 1 /\ rc.attempt <= maxRetries /\ rc.i <= max)
    /\ InLoop ~> ~InLoop

\* a wait whose condition did not come true has thrown its timeout
C22_Witness ==
    /\ rc.pc = "failed" /\ rc.error = "Timeout"
    /\ fn.exists /\ ~LambdaReady

\* the mutations deployLambdaFunction wraps in withLambdaUpdateRetry
Wrapped == {"UpdateFunctionCode", "UpdateFunctionConfiguration"}

\* how often the run has sent call
Calls(call) == Cardinality({k \in DOMAIN rc.writes : rc.writes[k] = call})

\* the step sends a wrapped mutation and gets ResourceConflictException
Conflicts ==
    /\ rc.pc \in {"dl_code", "dl_config"}
    /\ rc'.writes # rc.writes
    /\ fn.exists /\ fn.lus = "InProgress"

\* the step ends the waitForLambdaReady that follows a conflict
RetryWaitEnds ==
    /\ rc.pc = "wait" /\ rc.waitFor \in {"retry", "last"}
    /\ rc'.pc # "wait"

\* what C23 says apart from the end of the wait: a conflict of one of the
\* first maxRetries attempts starts a wait for the same mutation, the
\* mutation is sent at most maxRetries + 1 times, not again once it is
\* accepted, and the conflict of the last attempt is thrown
RetryRules ==
    /\ (Conflicts /\ rc.attempt < maxRetries) =>
           rc'.pc = "wait" /\ rc'.waitFor = "retry" /\ rc'.after = rc.pc
    /\ \A call \in Wrapped : Calls(call)' <= maxRetries + 1
    /\ \A call \in Wrapped :
           (call \in rc.accepted /\ rc'.runs = rc.runs) => Calls(call)' = Calls(call)
    /\ (Conflicts /\ rc.attempt = maxRetries) =>
           rc'.pc = "failed" /\ rc'.error = "ResourceConflictException"

\* C23 as stated: under withLambdaUpdateRetry every conflict is followed by
\* a wait for the function and then by the same mutation again, the
\* mutation is sent at most maxRetries + 1 times and not after it was
\* accepted, and if all attempts conflict the conflict is thrown.
C23_ConflictWaitRetry ==
    [][RetryRules /\ (RetryWaitEnds => rc'.pc = rc.after)]_vars

\* C23, amended: the wait after a conflict ends with the same mutation
\* again or by throwing its own error (the time is up, GetFunction failed),
\* which ends the run without another attempt; the rest as stated.
C23_ConflictWaitRetryOrWaitThrows ==
    [][/\ RetryRules
       /\ RetryWaitEnds =>
            \/ rc'.pc = rc.after
            \/ rc'.pc = "failed" /\ rc'.error \in {"Timeout", "Error"}
                 /\ rc'.writes = rc.writes]_vars

\* every attempt of UpdateFunctionCode has met a conflict
C23_Witness ==
    /\ rc.pc = "failed" /\ rc.error = "ResourceConflictException"
    /\ Calls("UpdateFunctionCode") = maxRetries + 1

\* the place of a mutating call in the order role, function, trigger
Phase(call) ==
    CASE call \in {"UpdateAssumeRolePolicy", "CreateRole", "AttachRolePolicy",
                   "PutRolePolicy"} -> 1
      [] call \in {"CreateFunction", "UpdateFunctionCode",
                   "UpdateFunctionConfiguration"} -> 2
      [] call \in {"AddPermission", "PutBucketNotificationConfiguration"} -> 3

\* the calls of the run so far
Written == {rc.writes[k] : k \in DOMAIN rc.writes}

\* C24: a run of init provisions in the order bucket, role, function,
\* trigger: the mutating calls of the role come before those of the function
\* and those before the calls of the trigger; a function is created or
\* updated only when ensureLambdaExecRole has set lambdaRoleArn;
\* AddPermission and PutBucketNotificationConfiguration are sent only when
\* the function was seen existing and ready; and bucketName is set before
\* the first call of the role, the function and the trigger.
C24_ProvisioningOrder ==
    /\ \A j, k \in DOMAIN rc.writes : j < k => Phase(rc.writes[j]) <= Phase(rc.writes[k])
    /\ (\E call \in Written : Phase(call) = 2) => rc.lambdaRoleArn
    /\ (\E call \in Written : Phase(call) = 3) => rc.observed
    /\ (rc.writes # <<>> \/ rc.pc \notin {"idle", "failed"}) => rc.bucketName

\* a run that went through all four
C24_Witness ==
    /\ rc.pc = "done"
    /\ {"CreateRole", "CreateFunction", "PutBucketNotificationConfiguration"}
           \subseteq Written

\* the step is a PutBucketNotificationConfiguration that the store accepts
PutAccepted == rc.pc = "tr_put" /\ rc'.pc = "tr_verify"

\* C25: what ensureS3UploadTrigger writes is the configuration it read
\* with the desired entry merged in: every other Lambda entry, and the
\* queue and topic configurations, that were read are in the configuration
\* written, unchanged, and so is the desired entry.
C25_MergePreservesOthers ==
    [][PutAccepted =>
         /\ desired \in notif'.LambdaFunctionConfigurations
         /\ \A e \in rc.current[1].LambdaFunctionConfigurations :
                e # desired => e \in notif'.LambdaFunctionConfigurations
         /\ notif'.LambdaFunctionConfigurations \subseteq
                rc.current[1].LambdaFunctionConfigurations \cup {desired}
         /\ notif'.QueueConfigurations = rc.current[1].QueueConfigurations
         /\ notif'.TopicConfigurations = rc.current[1].TopicConfigurations]_vars

\* a configuration with something of others was read and written back
C25_Witness ==
    /\ rc.pc = "tr_verify"
    /\ rc.current # None
    /\ \/ ForeignEntry \in rc.current[1].LambdaFunctionConfigurations
       \/ rc.current[1].QueueConfigurations # {}
       \/ rc.current[1].TopicConfigurations # {}
    /\ desired \in notif.LambdaFunctionConfigurations

\* C26: ensureS3UploadTrigger, and with it init, returns only from the
\* read back of the configuration and only if that holds the desired entry;
\* when max attempts of the write were refused, or the entry is not in the
\* read back, the run throws.
C26_ReturnsOnlyIfVerified ==
    [][/\ (rc'.pc = "done" /\ rc.pc # "done") =>
              /\ rc.pc = "tr_verify"
              /\ desired \in notif.LambdaFunctionConfigurations
       /\ (rc.pc = "tr_verify" /\ rc'.pc # rc.pc
              /\ desired \notin notif.LambdaFunctionConfigurations) =>
              rc'.pc = "failed" /\ rc'.error # "none"
       /\ (rc.pc = "tr_read" /\ rc'.pc # rc.pc /\ rc.i >= max) =>
              rc'.pc = "failed" /\ rc'.error # "none"]_vars

\* the run has thrown after max refused writes
C26_Witness ==
    /\ rc.pc = "failed" /\ rc.i = max
    /\ rc.error = "Failed to set S3 notification after retries"
    /\ Calls("PutBucketNotificationConfiguration") = max

\* the run has thrown because the entry was not in the read back
C26_WitnessReadBack ==
    /\ rc.pc = "failed" /\ rc.error = "Verification failed"
    /\ desired \notin notif.LambdaFunctionConfigurations

\* the variables of an environment and their values
VariablesOf(env) == {env[k] : k \in DOMAIN env}

\* one of memory size, timeout, handler, runtime, environment variables or
\* role of a configuration differs from the desired value
Differs(currentCfg) ==
    \/ currentCfg.MemorySize # Configuration.MemorySize
    \/ currentCfg.Timeout # Configuration.Timeout
    \/ currentCfg.Handler # Configuration.Handler
    \/ currentCfg.Runtime # Configuration.Runtime
    \/ VariablesOf(currentCfg.Variables) # VariablesOf(Configuration.Variables)
    \/ currentCfg.Role # Configuration.Role

\* deployLambdaFunction is through with the function
Deployed == rc.pc \in {"tr_wait", "tr_perm", "tr_read", "tr_put", "tr_verify", "done"}

\* C27: for a function that GetFunction found, deployLambdaFunction sends
\* UpdateFunctionCode if and only if its CodeSha256 is not the hash of the
\* local code, and UpdateFunctionConfiguration if and only if one of memory
\* size, timeout, handler, runtime, environment variables or role differs
\* from the desired value; when all are equal it sends no update.
C27_UpdateIffDiffers ==
    /\ "UpdateFunctionCode" \in Written =>
           rc.existingFunction # None /\ rc.existingFunction[1].code # "local"
    /\ "UpdateFunctionConfiguration" \in Written =>
           rc.existingFunction # None /\ Differs(rc.existingFunction[1].config)
    /\ (Deployed /\ rc.existingFunction # None) =>
           /\ rc.existingFunction[1].code # "local" => "UpdateFunctionCode" \in Written
           /\ Differs(rc.existingFunction[1].config) =>
                  "UpdateFunctionConfiguration" \in Written

\* C28: when GetFunction says that the function does not exist,
\* deployLambdaFunction sends CreateFunction once, with the code and the
\* whole desired configuration, and no UpdateFunctionCode or
\* UpdateFunctionConfiguration in that run; another error of GetFunction
\* ends the run before any call that changes the function or the trigger.
C28_AbsentCreatesOnce ==
    [][/\ "CreateFunction" \in Written' =>
              /\ Calls("CreateFunction")' = 1
              /\ rc'.existingFunction = None
              /\ Written' \cap Wrapped = {}
       /\ (Deployed' /\ rc'.existingFunction = None) => "CreateFunction" \in Written'
       /\ (rc.pc = "dl_create" /\ rc'.pc = "wait") =>
              fn'.code = "local" /\ fn'.config = Configuration
       /\ (rc'.pc = "failed" /\ rc'.error = "GetFunction") =>
              \A call \in Written' : Phase(call) = 1]_vars

\* a run that found no function has created it and is through
C28_Witness ==
    /\ rc.pc = "done" /\ rc.existingFunction = None
    /\ Calls("CreateFunction") = 1

\* a run has ended with the error of GetFunction
C28_WitnessError == rc.pc = "failed" /\ rc.error = "GetFunction" /\ fn.exists

\* the step sends call
Sends(call) == rc'.writes = Append(rc.writes, call)

\* C29: ensureLambdaExecRole sends CreateRole only when the role is absent,
\* UpdateAssumeRolePolicy only when the trust policy of the role is not the
\* desired one, and PutRolePolicy only when the inline policy is absent or
\* is not the desired document; when it has returned, lambdaRoleArn is set.
C29_RoleDiffAndUpdate ==
    [][/\ Sends("CreateRole") => ~iam.role
       /\ Sends("UpdateAssumeRolePolicy") => iam.trust # "desired"
       /\ Sends("PutRolePolicy") => iam.inline # "desired"
       /\ (rc.pc \in {"el_getpol", "el_putpol"} /\ rc'.pc = "wait") =>
              rc'.lambdaRoleArn]_vars

\* C30: a run whose waitForLambdaReady in ensureLambdaFunctions has timed
\* out or failed sends no CreateFunction, UpdateFunctionCode or
\* UpdateFunctionConfiguration and does not end as a run that succeeded.
C30_NoMutationAfterFailedWait ==
    rc.notReady =>
        /\ \A call \in Written : Phase(call) # 2
        /\ rc.pc # "done"

\* C31: an error that is not retried ends the run at once: an error of a
\* wrapped update other than the conflict, and an error of
\* PutBucketNotificationConfiguration other than the refusal of the
\* configuration, is thrown with the call that met it as the last call of
\* the run, with no wait and no further attempt.
C31_OtherErrorsNotRetried ==
    [][/\ (rc.pc \in {"dl_code", "dl_config"} /\ rc'.writes # rc.writes /\ ~fn.exists) =>
              /\ rc'.pc = "failed" /\ rc'.error = "Error"
              /\ Len(rc'.writes) = Len(rc.writes) + 1
       /\ (rc.pc = "tr_put" /\ rc'.pc \notin {"tr_put", "tr_verify"}
              /\ Accepted(merged(rc.current[1]))) =>
              /\ rc'.pc = "failed" /\ rc'.error = "Error"
              /\ rc'.i = rc.i
              /\ Len(rc'.writes) = Len(rc.writes) + 1
       /\ (rc.pc = "failed" /\ rc'.runs = rc.runs) => rc'.writes = rc.writes]_vars

\* the first PutBucketNotificationConfiguration met another error
C31_Witness ==
    /\ rc.pc = "failed" /\ rc.error = "Error" /\ rc.i = 0
    /\ Calls("PutBucketNotificationConfiguration") = 1
    /\ rc.writes[Len(rc.writes)] = "PutBucketNotificationConfiguration"
    /\ rc.current # None /\ Accepted(merged(rc.current[1]))

----------------------------------------------------------------------------
(* Two server processes that start together: the run rc, and the calls of  *)
(* the other process that land between the steps of rc.                    *)

\* the function as an earlier version of the package has left it
OldFunction ==
    [exists |-> TRUE, code |-> "old", config |-> [Configuration EXCEPT !.MemorySize = 256],
     perm |-> TRUE, state |-> "Active", lus |-> "Successful"]

\* the role as ensureLambdaExecRole leaves it
WholeRole == [role |-> TRUE, trust |-> "desired", attached |-> TRUE, inline |-> "desired"]

\* ensureLambdaExecRole of the other process, which found no role
OtherRole ==
    /\ rc.pc \notin {"idle", "done", "failed"}
    /\ ~iam.role
    /\ iam' = WholeRole
    /\ UNCHANGED <<ledgerVars, gen, bucketVars, fn, notif, rc>>

\* CreateFunction of the other process, which found no function
OtherFunction ==
    /\ rc.pc \notin {"idle", "done", "failed"}
    /\ iam.role /\ ~fn.exists
    /\ fn' = [exists |-> TRUE, code |-> "local", config |-> Configuration,
              perm |-> FALSE, state |-> "Pending", lus |-> "Successful"]
    /\ UNCHANGED <<ledgerVars, gen, bucketVars, iam, notif, rc>>

\* nothing or a part is provisioned when the processes start
ConcInit ==
    /\ LedgerIdle /\ gen = NoGen /\ BucketIdle
    /\ iam \in {NoRole, WholeRole}
    /\ fn \in {NoFunction, OldFunction}
    /\ notif \in {NoNotification,
                  [NoNotification EXCEPT !.LambdaFunctionConfigurations = {ForeignEntry}]}
    /\ rc = RcIdle

\* the steps of rc with every call answered by the control plane as its
\* state says, the function settling, and the other process
ConcNext ==
    \/ init(TRUE)
    \/ ensureLambdaExecRole
    \/ ElUpdateTrust
    \/ ElCreateRole
    \/ ElAttach(FALSE)
    \/ ElGetPolicy
    \/ ElPutPolicy
    \/ waitForLambdaReady(FALSE)
    \/ deployLambdaFunction(FALSE)
    \/ DlCreate
    \/ DlUpdateCode
    \/ DlUpdateConfig
    \/ ensureS3UploadTrigger
    \/ TrAddPermission
    \/ putWithRetry
    \/ TrPut(FALSE)
    \/ TrVerify
    \/ LambdaSettles(TRUE)
    \/ OtherRole
    \/ OtherFunction

SpecConcurrent == ConcInit /\ [][ConcNext]_vars

\* C32: when two processes run init together, a run is not ended by the
\* answer that the role or the function exists already or is being
\* changed: such an answer is checked again and the call retried.
C32_ConcurrentRunsSucceed ==
    rc.pc = "failed" => rc.error \notin {"EntityAlreadyExists", "ResourceConflictException"}

\* the Lambda entries of a configuration that carry the desired Id
WithDesiredId(config) ==
    {c \in config.LambdaFunctionConfigurations : c.Id = desired.Id}

\* C37: whatever configuration putWithRetry has read, a stale entry with the
\* desired Id and another function ARN included, the configuration it writes
\* has exactly one Lambda entry with the desired Id; so has the bucket when
\* the write is accepted, and a write over a configuration that holds the
\* desired entry already does not grow the list.
C37_ExactlyOneDesiredEntry ==
    /\ [](rc.pc = "tr_put" => Cardinality(WithDesiredId(merged(rc.current[1]))) = 1)
    /\ [][PutAccepted =>
            /\ Cardinality(WithDesiredId(notif')) = 1
            /\ desired \in rc.current[1].LambdaFunctionConfigurations =>
                   notif'.LambdaFunctionConfigurations
                       = rc.current[1].LambdaFunctionConfigurations]_vars

----------------------------------------------------------------------------
(* The upload function and the confirm endpoint.  An instance name is the  *)
(* sequence of its characters, a path the sequence of its segments.        *)

\* config.name of the instances: a plain name and one with a space
DeliveryNames == {<<"s", "3">>, <<"a", " ">>}

\* the characters encodeURIComponent leaves as they are
Unreserved == {"s", "3", "a"}

\* the escape of the other characters
Escape(ch) == IF ch = " " THEN <<"%", "2", "0">> ELSE <<"%", "x", "x">>

RECURSIVE encodeURIComponent(_)
encodeURIComponent(s) ==
    IF s = <<>> THEN <<>>
    ELSE (IF Head(s) \in Unreserved THEN <<Head(s)>> ELSE Escape(Head(s)))
             \o encodeURIComponent(Tail(s))

\* webhookBase: an origin without a trailing slash
webhookBase == "https://app.example"

\* the webhookUrl of deployLambdaFunction
webhookUrl(name) ==
    [origin |-> webhookBase,
     pathname |-> << <<"meteor-s3-api">>, encodeURIComponent(name), <<"confirm">> >>]

\* the path ensureEndpoints registers the POST handler under
ensureEndpoints(name) == << <<"api">>, encodeURIComponent(name), <<"confirm">> >>

\* the environment rendered into the manifest for an instance
renderedEnv(name) ==
    << <<"WEBHOOK_URL", webhookUrl(name)>>, <<"BUCKET", bucketName>>,
       <<"INSTANCE", name>> >>

\* process.env of the deployed function
Env(key) ==
    LET v == fn.config.Variables
    IN  v[CHOOSE i \in DOMAIN v : v[i][1] = key][2]

\* new URL(process.env.WEBHOOK_URL) and the path of the request options
RequestPath == Env("WEBHOOK_URL").pathname

\* what a server answers a POST with for which the instance has no handler:
\* nothing of this package runs
Unrouted == {404, 405}

\* the store sends the event of an object under uploads/ to the function,
\* the handler POSTs {key} to WEBHOOK_URL, and the server routes the request
handler(p, k, status) ==
    /\ fn.exists /\ fn.state = "Active"
    /\ desired \in notif.LambdaFunctionConfigurations
    /\ k \in DOMAIN objects
    /\ IF RequestPath = ensureEndpoints(Env("INSTANCE"))
       THEN Webhook(p, k)
       ELSE /\ result' = [call |-> [NewCall("POST", 0, "nouser") EXCEPT
                                       !.via = "function", !.key = k],
                          outcome |-> "no-handler", value |-> None, http |-> status]
            /\ UNCHANGED provVars
            /\ UNCHANGED <<cfg, files, objects, nextId, proc, calls, now>>

\* init has completed for one instance: the role, the function with the
\* rendered manifest and the trigger are in place, the ledger is empty and
\* the permission checks are skipped
DeliveryInit ==
    /\ cfg = [skipPermissionChecks |-> TRUE, customCheck |-> FALSE]
    /\ files = <<>> /\ objects = <<>> /\ nextId = 1
    /\ proc = [p \in Procs |-> Idle]
    /\ result = NoResult /\ calls = 0 /\ now = 0
    /\ gen = NoGen /\ BucketIdle
    /\ iam = WholeRole
    /\ \E n \in DeliveryNames :
           fn = [exists |-> TRUE, code |-> "local",
                 config |-> [Configuration EXCEPT !.Variables = renderedEnv(n)],
                 perm |-> TRUE, state |-> "Active", lus |-> "Successful"]
    /\ notif = [NoNotification EXCEPT !.LambdaFunctionConfigurations = {desired}]
    /\ rc = [RcIdle EXCEPT !.pc = "done"]

\* uploads, the confirmations of the function, and the method a client may
\* still call
DeliveryNext ==
    \/ \E k \in AllKeys, e \in Etags : PutObject(k, e)
    \/ \E p \in Procs, n \in Filenames, u \in Users, a \in PredicateAnswers :
          GetUploadUrl(p, n, u, a)
    \/ \E p \in Procs : \E s \in GetKeyResults(nextId, proc[p].name) : GuInsert(p, s)
    \/ \E p \in Procs, t \in BOOLEAN : GuHook(p, t)
    \/ \E p \in Procs : GuSign(p)
    \/ \E p \in Procs, i \in FileIds : handleFileUploadEvent(p, i)
    \/ \E p \in Procs : HfFind(p)
    \/ \E p \in Procs, e \in BOOLEAN : HfProbe(p, e)
    \/ \E p \in Procs : HfUpdate(p)
    \/ \E p \in Procs, t \in BOOLEAN : HfHook(p, t)
    \/ \E p \in Procs, k \in AllKeys, h \in Unrouted : handler(p, k, h)

SpecDelivery == DeliveryInit /\ [][DeliveryNext]_vars

\* the store delivers and redelivers the event, the POST reaches the server,
\* and the server goes on with every call it has started
SpecDeliveryFair ==
    /\ SpecDelivery
    /\ WF_vars(\E p \in Procs, k \in AllKeys, h \in Unrouted : handler(p, k, h))
    /\ \A p \in Procs :
           WF_vars(\E s \in GetKeyResults(nextId, proc[p].name) : GuInsert(p, s))
    /\ \A p \in Procs : WF_vars(\E t \in BOOLEAN : GuHook(p, t))
    /\ \A p \in Procs : WF_vars(GuSign(p))
    /\ \A p \in Procs : WF_vars(HfFind(p))
    /\ \A p \in Procs : SF_vars(HfProbe(p, FALSE))
    /\ \A p \in Procs : WF_vars(HfUpdate(p))
    /\ \A p \in Procs : WF_vars(\E t \in BOOLEAN : HfHook(p, t))

\* C38: the path of the WEBHOOK_URL in the environment of the deployed
\* function is the path ensureEndpoints registers for the instance the
\* function was deployed for, for every instance name.
C38_WebhookUrlIsConfirmEndpoint ==
    /\ \A n \in DeliveryNames : webhookUrl(n).pathname = ensureEndpoints(n)
    /\ fn.exists => RequestPath = ensureEndpoints(Env("INSTANCE"))

\* C39: a pending record whose object is in the store under its key becomes
\* uploaded, whether or not a client calls handleFileUploadEvent.
C39_UploadEventuallyConfirmed ==
    \A i \in FileIds :
        (i \in DOMAIN files /\ files[i].status = "pending"
            /\ files[i].key \in DOMAIN objects)
          ~> (i \in DOMAIN files /\ files[i].status = "uploaded")

====
